---- MODULE Spec2Model ----
(***************************************************************************)
(* Verification model of the OCR invoice extraction pipeline of            *)
(* opti_saas_lib: pattern tables, OCR text cleaning, zone detection,       *)
(* fragment and multi-line merging, line scoring, the cascading line-item  *)
(* extractor with its loose fallback, and the totals validator.            *)
(*                                                                         *)
(* A document text is modelled as the sequence of its lines, that is as    *)
(* text.split('\n'); a line is a TLA+ string and never holds a newline.    *)
(* Regular expressions are modelled structurally and matched by a          *)
(* backtracking matcher with JavaScript's priority order.  Numbers are     *)
(* exact rationals <<numerator, denominator>>.                             *)
(***************************************************************************)
EXTENDS Integers, Sequences, FiniteSets, TLC

(***************************************************************************)
(* Characters and strings                                                  *)
(***************************************************************************)
\* Let([x \in {v} |-> e]) is e with x bound to v: a value computed once and used
\* under a name.
Let(f) == f[CHOOSE x \in DOMAIN f : TRUE]

At(s, i) == SubSeq(s, i, i)

Chars(s) == {At(s, i) : i \in 1..Len(s)}

LowerSeq == "abcdefghijklmnopqrstuvwxyz"

UpperSeq == "ABCDEFGHIJKLMNOPQRSTUVWXYZ"

Digit == Chars("0123456789")

LowerAZ == Chars(LowerSeq)

UpperAZ == Chars(UpperSeq)

AZ == UpperAZ

AZaz == LowerAZ \cup UpperAZ

WordChar == AZaz \cup Digit \cup {"_"}

WS == {" ", "\t", "\n", "\r", "\f"}

\* The case pairs of the letters the texts use, as explicit functions.
RECURSIVE CaseMap(_, _, _)
CaseMap(from, to, i) ==
  IF i = 1 THEN At(from, 1) :> At(to, 1)
  ELSE (At(from, i) :> At(to, i)) @@ CaseMap(from, to, i - 1)

ToLower == CaseMap(UpperSeq \o "ÉÀ", LowerSeq \o "éà", 28)

ToUpper == CaseMap(LowerSeq \o "éà", UpperSeq \o "ÉÀ", 28)

Uppers == DOMAIN ToLower

Lowers == DOMAIN ToUpper

Lower(c) == IF c \in Uppers THEN ToLower[c] ELSE c

Upper(c) == IF c \in Lowers THEN ToUpper[c] ELSE c

\* The recursions over the characters of a string split it in halves.
RECURSIVE toLowerCase(_)
toLowerCase(s) ==
  IF Len(s) <= 1 THEN Lower(s)
  ELSE toLowerCase(SubSeq(s, 1, Len(s) \div 2)) \o toLowerCase(SubSeq(s, Len(s) \div 2 + 1, Len(s)))

RECURSIVE toUpperCase(_)
toUpperCase(s) ==
  IF Len(s) <= 1 THEN Upper(s)
  ELSE toUpperCase(SubSeq(s, 1, Len(s) \div 2)) \o toUpperCase(SubSeq(s, Len(s) \div 2 + 1, Len(s)))

substring(s, from) == SubSeq(s, from + 1, Len(s))

RECURSIVE TrimStart(_)
TrimStart(s) == IF s # "" /\ At(s, 1) \in WS THEN TrimStart(SubSeq(s, 2, Len(s))) ELSE s

RECURSIVE TrimEnd(_)
TrimEnd(s) == IF s # "" /\ At(s, Len(s)) \in WS THEN TrimEnd(SubSeq(s, 1, Len(s) - 1)) ELSE s

trim(s) == TrimEnd(TrimStart(s))

RECURSIVE join(_, _)
join(parts, sep) ==
  IF parts = <<>> THEN ""
  ELSE IF Len(parts) = 1 THEN parts[1]
  ELSE parts[1] \o sep \o join(Tail(parts), sep)

\* The least position in lo..hi where w occurs in s, 0 when there is none.
RECURSIVE IndexIn(_, _, _, _)
IndexIn(s, w, lo, hi) ==
  IF lo > hi THEN 0
  ELSE IF lo = hi THEN (IF SubSeq(s, lo, lo + Len(w) - 1) = w THEN lo ELSE 0)
  ELSE Let([k \in {IndexIn(s, w, lo, (lo + hi) \div 2)} |->
         IF k > 0 THEN k ELSE IndexIn(s, w, (lo + hi) \div 2 + 1, hi)])

indexOf(s, w, from) == IndexIn(s, w, from, Len(s) - Len(w) + 1)

includes(s, w) == indexOf(s, w, 1) > 0

startsWith(s, w) == Len(s) >= Len(w) /\ SubSeq(s, 1, Len(w)) = w

MapSeq(q, f(_)) == [i \in 1..Len(q) |-> f(q[i])]

(***************************************************************************)
(* Regular expressions.  A pattern is a sequence of nodes:                 *)
(*   cls  a quantified character class  [..]{min,max}  (lazy or greedy)    *)
(*   lit  a literal word                                                   *)
(*   grp  a capture group, opt an optional non-capturing group,            *)
(*   alt  an alternation, bol/eol the anchors ^ and $, wb the anchor \b,   *)
(*   ahead  a positive or negative lookahead.                              *)
(* MatchSeq returns the first match in backtracking priority order.        *)
(***************************************************************************)
INF == 9999

Cls(cs, min, max) == [t |-> "cls", cs |-> cs, neg |-> FALSE, min |-> min, max |-> max, lazy |-> FALSE]

NotCls(cs, min, max) == [t |-> "cls", cs |-> cs, neg |-> TRUE, min |-> min, max |-> max, lazy |-> FALSE]

Dot(min, max) == NotCls({"\n", "\r"}, min, max)

Lazy(node) == [node EXCEPT !.lazy = TRUE]

\* A literal; the literals of the patterns with the i flag are written in lower case.
Lit(w) == [t |-> "lit", w |-> w]

Grp(n, p) == [t |-> "grp", n |-> n, p |-> p]

Opt(p) == [t |-> "opt", p |-> p]

Alt(ps) == [t |-> "alt", ps |-> ps]

Bol == [t |-> "bol"]

\* ^ under the m flag: the start of the subject or of one of its lines
BolM == [t |-> "bolm"]

Eol == [t |-> "eol"]

Wb == [t |-> "wb"]

\* The lookaheads (?=p) and (?!p)
Ahead(p) == [t |-> "ahead", p |-> p, want |-> TRUE]

NotAhead(p) == [t |-> "ahead", p |-> p, want |-> FALSE]

\* . under the s flag: any character
DotAll(min, max) == NotCls({}, min, max)

Regex(p, ci) == [p |-> p, ci |-> ci]

MaxGroups == 6

NoCaps == [k \in 1..MaxGroups |-> <<0, 0>>]

NoMatch == [ok |-> FALSE, s |-> 0, e |-> 0, caps |-> NoCaps]

\* Under the i flag the subject is matched in lower case (see Exec), so a
\* character is in a class when it or its upper-case form is.
InCls(h, c, ci) ==
  LET m == c \in h.cs \/ (ci /\ Upper(c) \in h.cs)
  IN IF h.neg THEN ~m ELSE m

\* k when it lies before mid, otherwise rest.
Before(k, mid, rest) == IF k < mid THEN k ELSE rest

\* The least k in lo..hi - 1 with the character at pos + k outside the class, else hi.
RECURSIVE ClsRun(_, _, _, _, _, _)
ClsRun(h, s, pos, ci, lo, hi) ==
  IF lo >= hi THEN hi
  ELSE IF hi = lo + 1 THEN (IF InCls(h, At(s, pos + lo), ci) THEN hi ELSE lo)
  ELSE Before(ClsRun(h, s, pos, ci, lo, (lo + hi) \div 2), (lo + hi) \div 2,
              ClsRun(h, s, pos, ci, (lo + hi) \div 2, hi))

\* The length of the longest run of class characters from pos on, h.max at most.
RunLen(h, s, pos, ci, n) ==
  ClsRun(h, s, pos, ci, n, IF h.max < Len(s) - pos + 1 THEN h.max ELSE Len(s) - pos + 1)

LitAt(w, s, pos, ci) ==
  /\ pos + Len(w) - 1 <= Len(s)
  /\ At(s, pos) = At(w, 1)
  /\ SubSeq(s, pos, pos + Len(w) - 1) = w

IsWordAt(s, i) == i >= 1 /\ i <= Len(s) /\ At(s, i) \in WordChar

\* The match m when there is one, otherwise the next attempt.
OrElse(m, next) == IF m.ok THEN m ELSE next

\* The match m, found at position lo.
StartAt(m, lo) == IF m.ok THEN [m EXCEPT !.s = lo] ELSE NoMatch

RECURSIVE MatchSeq(_, _, _, _, _)
RECURSIVE TryCounts(_, _, _, _, _, _, _, _)
RECURSIVE TryAlts(_, _, _, _, _, _, _, _)
MatchSeq(p, s, pos, caps, ci) ==
  IF p = <<>> THEN [ok |-> TRUE, s |-> 0, e |-> pos, caps |-> caps]
  ELSE LET h == Head(p)
           r == Tail(p)
       IN CASE h.t = "cls" ->
                 TryCounts(h, r, s, pos, caps, ci, h.min, RunLen(h, s, pos, ci, 0))
            [] h.t = "lit" ->
                 IF LitAt(h.w, s, pos, ci) THEN MatchSeq(r, s, pos + Len(h.w), caps, ci) ELSE NoMatch
            [] h.t = "grp" ->
                 MatchSeq(h.p \o <<[t |-> "end", n |-> h.n, st |-> pos]>> \o r, s, pos, caps, ci)
            [] h.t = "end" ->
                 MatchSeq(r, s, pos, [caps EXCEPT ![h.n] = <<h.st, pos>>], ci)
            [] h.t = "opt" ->
                 OrElse(MatchSeq(h.p \o r, s, pos, caps, ci), MatchSeq(r, s, pos, caps, ci))
            [] h.t = "alt" -> TryAlts(h.ps, 1, Len(h.ps), r, s, pos, caps, ci)
            [] h.t = "bol" -> IF pos = 1 THEN MatchSeq(r, s, pos, caps, ci) ELSE NoMatch
            [] h.t = "bolm" ->
                 IF pos = 1 \/ At(s, pos - 1) = "\n" THEN MatchSeq(r, s, pos, caps, ci) ELSE NoMatch
            [] h.t = "eol" -> IF pos = Len(s) + 1 THEN MatchSeq(r, s, pos, caps, ci) ELSE NoMatch
            [] h.t = "wb" ->
                 IF IsWordAt(s, pos - 1) # IsWordAt(s, pos)
                 THEN MatchSeq(r, s, pos, caps, ci) ELSE NoMatch
            [] h.t = "ahead" ->
                 IF MatchSeq(h.p, s, pos, caps, ci).ok = h.want
                 THEN MatchSeq(r, s, pos, caps, ci) ELSE NoMatch
\* The counts lo..hi of a quantified class in priority order: the most first
\* when greedy, the fewest first when lazy; no match when the run hi is too short.
TryCounts(h, r, s, pos, caps, ci, lo, hi) ==
  IF hi < lo THEN NoMatch
  ELSE IF lo = hi THEN MatchSeq(r, s, pos + lo, caps, ci)
  ELSE IF h.lazy
  THEN OrElse(TryCounts(h, r, s, pos, caps, ci, lo, (lo + hi) \div 2),
              TryCounts(h, r, s, pos, caps, ci, (lo + hi) \div 2 + 1, hi))
  ELSE OrElse(TryCounts(h, r, s, pos, caps, ci, (lo + hi) \div 2 + 1, hi),
              TryCounts(h, r, s, pos, caps, ci, lo, (lo + hi) \div 2))
\* The alternatives lo..hi of an alternation, left to right.
TryAlts(ps, lo, hi, r, s, pos, caps, ci) ==
  IF lo = hi THEN MatchSeq(ps[lo] \o r, s, pos, caps, ci)
  ELSE OrElse(TryAlts(ps, lo, (lo + hi) \div 2, r, s, pos, caps, ci),
              TryAlts(ps, (lo + hi) \div 2 + 1, hi, r, s, pos, caps, ci))

\* Leftmost match of pattern re on subject s from the 1-based position `from`.
RECURSIVE ExecIn(_, _, _, _)
ExecIn(re, s, lo, hi) ==
  IF lo = hi THEN StartAt(MatchSeq(re.p, s, lo, NoCaps, re.ci), lo)
  ELSE OrElse(ExecIn(re, s, lo, (lo + hi) \div 2), ExecIn(re, s, (lo + hi) \div 2 + 1, hi))

\* A pattern that begins with ^ matches at the first position or nowhere.
ExecFrom(re, s, from) ==
  IF from > Len(s) + 1 THEN NoMatch
  ELSE ExecIn(re, s, from, IF Head(re.p).t = "bol" THEN from ELSE Len(s) + 1)

\* RegExp.prototype.exec from `from`; with the i flag the subject is compared
\* in lower case, the positions of the match being those in s.
Exec(re, s, from) == ExecFrom(re, IF re.ci THEN toLowerCase(s) ELSE s, from)

\* regex.test(s) and s.match(regex) for a pattern without the g flag.
Test(re, s) == Exec(re, s, 1).ok

\* Text of capture group k of a match (the empty string when it did not take part).
Cap(s, m, k) == SubSeq(s, m.caps[k][1], m.caps[k][2] - 1)

Matched(s, m) == SubSeq(s, m.s, m.e - 1)

\* s.match(regex) for a pattern with the g flag: every match, left to right.
RECURSIVE MatchAllFrom(_, _, _)
MatchAllFrom(re, s, from) ==
  Let([m \in {Exec(re, s, from)} |->
    IF ~m.ok THEN <<>>
    ELSE <<Matched(s, m)>> \o MatchAllFrom(re, s, IF m.e > m.s THEN m.e ELSE m.e + 1)])

MatchAll(re, s) == MatchAllFrom(re, s, 1)

\* s.replace(regex /g, replacement); rep.k > 0 stands for '$k', otherwise rep.w.
RECURSIVE ReplaceFrom(_, _, _, _)
ReplaceFrom(re, s, rep, from) ==
  Let([m \in {Exec(re, s, from)} |->
    IF ~m.ok THEN SubSeq(s, from, Len(s))
    ELSE SubSeq(s, from, m.s - 1)
         \o (IF rep.k > 0 THEN Cap(s, m, rep.k) ELSE rep.w)
         \o (IF m.e > m.s THEN ReplaceFrom(re, s, rep, m.e)
             ELSE IF m.e > Len(s) THEN ""
             ELSE At(s, m.e) \o ReplaceFrom(re, s, rep, m.e + 1))])

ReplaceAll(re, s, rep) == ReplaceFrom(re, s, rep, 1)

Const(w) == [k |-> 0, w |-> w]

Dollar(k) == [k |-> k, w |-> ""]

\* s.split(regex) for a separator pattern that never matches the empty string.
RECURSIVE SplitFrom(_, _, _)
SplitFrom(re, s, from) ==
  Let([m \in {Exec(re, s, from)} |->
    IF ~m.ok \/ m.e = m.s THEN <<SubSeq(s, from, Len(s))>>
    ELSE <<SubSeq(s, from, m.s - 1)>> \o SplitFrom(re, s, m.e)])

Split(re, s) == SplitFrom(re, s, 1)

(***************************************************************************)
(* PatternCache: the process-wide table of compiled patterns.              *)
(***************************************************************************)
AlNum == AZ \cup Digit

\* \d+(?:[.,]\d+)?
Number == <<Cls(Digit, 1, INF), Opt(<<Cls({".", ","}, 1, 1), Cls(Digit, 1, INF)>>)>>

\* [\d\s.,]+
AmountRun == Cls(Digit \cup WS \cup {".", ","}, 1, INF)

\* [\d\s\.,\]\[\}\{\)\|f]+
ArtifactRun == Cls(Digit \cup WS \cup {".", ",", "]", "[", "}", "{", ")", "|", "f"}, 1, INF)

Sp == Cls(WS, 1, INF)

Sp0 == Cls(WS, 0, INF)

\* /^\d{8,14}\s/
EAN_FULL == Regex(<<Bol, Cls(Digit, 8, 14), Cls(WS, 1, 1)>>, FALSE)

\* /^\d{6,13}\s+[A-Z]/i
EAN_TRUNCATED == Regex(<<Bol, Cls(Digit, 6, 13), Sp, Cls(AZ, 1, 1)>>, TRUE)

\* /^[A-Z0-9]{1,5}[-\s][A-Z0-9]{2,}/i
REF_DASH == Regex(<<Bol, Cls(AlNum, 1, 5), Cls(WS \cup {"-"}, 1, 1), Cls(AlNum, 2, INF)>>, TRUE)

\* /^[A-Z]{2,4}\d{3,}/i
REF_NUMERIC == Regex(<<Bol, Cls(AZ, 2, 4), Cls(Digit, 3, INF)>>, TRUE)

\* /^[\d#]{1,3}[.)\]\s]/
INDEX_NUMERIC == Regex(<<Bol, Cls(Digit \cup {"#"}, 1, 3), Cls(WS \cup {".", ")", "]"}, 1, 1)>>, FALSE)

\* /\d+[.,]?\d*\s*%/
HAS_PERCENTAGE ==
  Regex(<<Cls(Digit, 1, INF), Cls({".", ","}, 0, 1), Cls(Digit, 0, INF), Sp0, Lit("%")>>, FALSE)

\* /\d{2,}[.,]\d{2}/g   (the only pattern of the table compiled with the g flag)
AMOUNT_PATTERN == Regex(<<Cls(Digit, 2, INF), Cls({".", ","}, 1, 1), Cls(Digit, 2, 2)>>, FALSE)

\* /\s[1-9]\d{0,2}\s/
QUANTITY_PATTERN ==
  Regex(<<Cls(WS, 1, 1), Cls(Digit \ {"0"}, 1, 1), Cls(Digit, 0, 2), Cls(WS, 1, 1)>>, FALSE)

\* /\s{2,}|\t/
MULTI_COLUMN == Regex(<<Alt(<< <<Cls(WS, 2, INF)>>, <<Lit("\t")>> >>)>>, FALSE)

\* /total|sous-total|montant|net\s*[àa]\s*payer|reporter|tva|h\.?t\.?|t\.?t\.?c\.?/i
IS_TOTAL ==
  Regex(<<Alt(<< <<Lit("total")>>, <<Lit("sous-total")>>, <<Lit("montant")>>,
                 <<Lit("net"), Sp0, Cls({"à", "a"}, 1, 1), Sp0, Lit("payer")>>,
                 <<Lit("reporter")>>, <<Lit("tva")>>,
                 <<Lit("h"), Cls({"."}, 0, 1), Lit("t"), Cls({"."}, 0, 1)>>,
                 <<Lit("t"), Cls({"."}, 0, 1), Lit("t"), Cls({"."}, 0, 1), Lit("c"),
                   Cls({"."}, 0, 1)>> >>)>>, TRUE)

\* /facture|date|client|fournisseur|adresse|ice|i\.?f\.?|r\.?c\.?|tél|tel|page|n°/i
IS_HEADER ==
  Regex(<<Alt(<< <<Lit("facture")>>, <<Lit("date")>>, <<Lit("client")>>, <<Lit("fournisseur")>>,
                 <<Lit("adresse")>>, <<Lit("ice")>>,
                 <<Lit("i"), Cls({"."}, 0, 1), Lit("f"), Cls({"."}, 0, 1)>>,
                 <<Lit("r"), Cls({"."}, 0, 1), Lit("c"), Cls({"."}, 0, 1)>>,
                 <<Lit("tél")>>, <<Lit("tel")>>, <<Lit("page")>>, <<Lit("n°")>> >>)>>, TRUE)

\* /\b(désignation|description|article|référence|qté|quantité|prix)\b|\bp\.?u\.?\b/i
TABLE_HEADER ==
  Regex(<<Alt(<< <<Wb, Grp(1, <<Alt(<< <<Lit("désignation")>>, <<Lit("description")>>,
                                       <<Lit("article")>>, <<Lit("référence")>>, <<Lit("qté")>>,
                                       <<Lit("quantité")>>, <<Lit("prix")>> >>)>>), Wb>>,
                 <<Wb, Lit("p"), Cls({"."}, 0, 1), Lit("u"), Cls({"."}, 0, 1), Wb>> >>)>>, TRUE)

\* /^total\s|reporter|net\s*[àa]\s*payer|sous-total/i
FOOTER_START ==
  Regex(<<Alt(<< <<Bol, Lit("total"), Cls(WS, 1, 1)>>, <<Lit("reporter")>>,
                 <<Lit("net"), Sp0, Cls({"à", "a"}, 1, 1), Sp0, Lit("payer")>>,
                 <<Lit("sous-total")>> >>)>>, TRUE)

\* /^(\d{8,14})\s+(.+?)\s+(\d+(?:[.,]\d+)?)\s+([\d\s.,]+)\s+(\d+(?:[.,]\d+)?)\s*%?\s+([\d\s.,]+)$/
LINE_BARCODE ==
  Regex(<<Bol, Grp(1, <<Cls(Digit, 8, 14)>>), Sp, Grp(2, <<Lazy(Dot(1, INF))>>), Sp,
          Grp(3, Number), Sp, Grp(4, <<AmountRun>>), Sp, Grp(5, Number), Sp0,
          Cls({"%"}, 0, 1), Sp, Grp(6, <<AmountRun>>), Eol>>, FALSE)

\* /^([a-z0-9\-\.]+)\s+(.+?)\s+(\d+(?:[\.,]\d+)?)\s+([\d\s\.,\]\[\}\{\)\|f]+)\s+([\d\.\s]+)%?\s+([\d\s\.,]+)/i
LINE_EXTENDED ==
  Regex(<<Bol, Grp(1, <<Cls(LowerAZ \cup Digit \cup {"-", "."}, 1, INF)>>), Sp,
          Grp(2, <<Lazy(Dot(1, INF))>>), Sp, Grp(3, Number), Sp, Grp(4, <<ArtifactRun>>), Sp,
          Grp(5, <<Cls(Digit \cup WS \cup {"."}, 1, INF)>>), Cls({"%"}, 0, 1), Sp,
          Grp(6, <<AmountRun>>)>>, TRUE)

\* /^([A-Z0-9][-A-Z0-9]{2,20})\s+(.{5,60}?)\s+(\d+(?:[.,]\d+)?)\s+([\d\s.,]+)\s+(\d+(?:[.,]\d+)?)\s*%\s+([\d\s.,]+)/i
LINE_WITH_DISCOUNT ==
  Regex(<<Bol, Grp(1, <<Cls(AlNum, 1, 1), Cls(AlNum \cup {"-"}, 2, 20)>>), Sp,
          Grp(2, <<Lazy(Dot(5, 60))>>), Sp, Grp(3, Number), Sp, Grp(4, <<AmountRun>>), Sp,
          Grp(5, Number), Sp0, Lit("%"), Sp, Grp(6, <<AmountRun>>)>>, TRUE)

\* /^(.{3,60}?)\s+(\d+(?:[.,]\d+)?)\s*(pcs?|kg|unité|unit|box|carton|lot)?\s+(\d+(?:[.,]\d+)?)\s+(\d+(?:[.,]\d+)?)/i
LINE_FULL ==
  Regex(<<Bol, Grp(1, <<Lazy(Dot(3, 60))>>), Sp, Grp(2, Number), Sp0,
          Opt(<<Grp(3, <<Alt(<< <<Lit("pc"), Cls({"s"}, 0, 1)>>, <<Lit("kg")>>, <<Lit("unité")>>,
                                <<Lit("unit")>>, <<Lit("box")>>, <<Lit("carton")>>,
                                <<Lit("lot")>> >>)>>)>>),
          Sp, Grp(4, Number), Sp, Grp(5, Number)>>, TRUE)

\* /(\d+(?:[.,]\d+)?)\s*[xX×]\s*(\d+(?:[.,]\d+)?)/
LINE_SIMPLE ==
  Regex(<<Grp(1, Number), Sp0, Cls({"x", "X", "×"}, 1, 1), Sp0, Grp(2, Number)>>, FALSE)

\* /^([a-z0-9\-\.]{4,})\s+(.+?)\s+(\d+(?:[\.,]\d+)?)\s+([\d\s\.,]+)$/i
LINE_FALLBACK ==
  Regex(<<Bol, Grp(1, <<Cls(LowerAZ \cup Digit \cup {"-", "."}, 4, INF)>>), Sp,
          Grp(2, <<Lazy(Dot(1, INF))>>), Sp, Grp(3, Number), Sp, Grp(4, <<AmountRun>>), Eol>>, TRUE)

(***************************************************************************)
(* The shared AMOUNT_PATTERN carries the g flag, so the pattern object     *)
(* keeps a lastIndex (0-based) between calls of test(); match() resets it. *)
(***************************************************************************)
\* AMOUNT_PATTERN.test(s) with the pattern's lastIndex at li.
TestG(re, s, li) ==
  IF li > Len(s) THEN [ok |-> FALSE, li |-> 0]
  ELSE Let([m \in {Exec(re, s, li + 1)} |->
         IF m.ok THEN [ok |-> TRUE, li |-> m.e - 1] ELSE [ok |-> FALSE, li |-> 0]])

(***************************************************************************)
(* Numbers: exact rationals <<n, d>> with d > 0 in lowest terms.           *)
(***************************************************************************)
RECURSIVE GCD(_, _)
GCD(a, b) == IF b = 0 THEN a ELSE GCD(b, a % b)

Abs(n) == IF n < 0 THEN -n ELSE n

Norm(n, d) ==
  Let([g \in {GCD(Abs(n), Abs(d))} |->
    IF d < 0 THEN <<(-n) \div g, (-d) \div g>> ELSE <<n \div g, d \div g>>])

Zero == <<0, 1>>

Whole(n) == <<n, 1>>

RAdd(a, b) == Norm(a[1] * b[2] + b[1] * a[2], a[2] * b[2])

RSub(a, b) == Norm(a[1] * b[2] - b[1] * a[2], a[2] * b[2])

RMul(a, b) ==
  Let([x \in {Norm(a[1], b[2])} |->
    Let([y \in {Norm(b[1], a[2])} |-> <<x[1] * y[1], x[2] * y[2]>>])])

RDiv(a, b) == RMul(a, Norm(b[2], b[1]))

RLt(a, b) == a[1] * b[2] < b[1] * a[2]

RLe(a, b) == a[1] * b[2] <= b[1] * a[2]

RPos(a) == a[1] > 0

RAbs(a) == <<Abs(a[1]), a[2]>>

RMax(a, b) == IF RLt(a, b) THEN b ELSE a

isInteger(a) == a[2] = 1

RECURSIVE Pow10(_)
Pow10(k) == IF k = 0 THEN 1 ELSE 10 * Pow10(k - 1)

DigitVal(c) == CHOOSE v \in 0..9 : At("0123456789", v + 1) = c

RECURSIVE DigitsVal(_)
DigitsVal(s) ==
  IF s = "" THEN 0 ELSE DigitsVal(SubSeq(s, 1, Len(s) - 1)) * 10 + DigitVal(At(s, Len(s)))

RECURSIVE StripZeros(_)
StripZeros(s) == IF s # "" /\ At(s, Len(s)) = "0" THEN StripZeros(SubSeq(s, 1, Len(s) - 1)) ELSE s

\* parseFloat on an unsigned decimal prefix; NaN is reported as ok = FALSE.
parseFloat(s) ==
  Let([ip \in {RunLen(Cls(Digit, 0, INF), s, 1, FALSE, 0)} |->
    Let([fp \in {IF ip < Len(s) /\ At(s, ip + 1) = "."
                THEN RunLen(Cls(Digit, 0, INF), s, ip + 2, FALSE, 0) ELSE 0} |->
      Let([frac \in {StripZeros(SubSeq(s, ip + 2, ip + 1 + fp))} |->
        IF ip = 0 /\ fp = 0 THEN [ok |-> FALSE, v |-> Zero]
        ELSE [ok |-> TRUE,
              v |-> Norm(DigitsVal(SubSeq(s, 1, ip)) * Pow10(Len(frac)) + DigitsVal(frac),
                         Pow10(Len(frac)))]])])])

RECURSIVE RemoveChars(_, _)
RemoveChars(s, cs) ==
  IF Len(s) <= 1 THEN (IF s \in cs THEN "" ELSE s)
  ELSE RemoveChars(SubSeq(s, 1, Len(s) \div 2), cs)
         \o RemoveChars(SubSeq(s, Len(s) \div 2 + 1, Len(s)), cs)

RECURSIVE lastIndexOf(_, _)
lastIndexOf(s, c) ==
  IF s = "" THEN 0 ELSE IF At(s, Len(s)) = c THEN Len(s) ELSE lastIndexOf(SubSeq(s, 1, Len(s) - 1), c)

ReplaceFirstChar(s, c, w) ==
  Let([i \in {indexOf(s, c, 1)} |->
    IF i = 0 THEN s ELSE SubSeq(s, 1, i - 1) \o w \o SubSeq(s, i + 1, Len(s))])

\* parseNumber: French and English number formats; 0 when nothing parses.
parseNumber(value) ==
  IF value = "" THEN Zero
  ELSE Let([c0 \in {RemoveChars(value, WS)} |->
         Let([lastComma \in {lastIndexOf(c0, ",")} |->
           Let([lastDot \in {lastIndexOf(c0, ".")} |->
             Let([num \in {parseFloat(IF lastComma > lastDot
                                     THEN ReplaceFirstChar(RemoveChars(c0, {"."}), ",", ".")
                                     ELSE IF lastDot > lastComma THEN RemoveChars(c0, {","})
                                     ELSE IF lastComma # 0 THEN ReplaceFirstChar(c0, ",", ".")
                                     ELSE c0)} |->
               IF num.ok THEN num.v ELSE Zero])])])])

RECURSIVE KeepNumeric(_)
KeepNumeric(s) ==
  IF Len(s) <= 1
  THEN (IF s = "," THEN "." ELSE IF s \in Digit \cup {"."} THEN s ELSE "")
  ELSE KeepNumeric(SubSeq(s, 1, Len(s) \div 2)) \o KeepNumeric(SubSeq(s, Len(s) \div 2 + 1, Len(s)))

\* cleanNumeric: commas become dots, then everything but digits and dots is dropped.
cleanNumeric(value) == IF value = "" THEN "" ELSE KeepNumeric(value)

Hundred == Whole(100)

One == Whole(1)

\* The price with the discount left out.
grossPrice(unitPrice, discountPercent) == unitPrice

\* unitPrice * (1 - discountPercent / 100)
calculateNetPrice(unitPrice, discountPercent) ==
  RMul(unitPrice, RSub(One, RDiv(discountPercent, Hundred)))

(***************************************************************************)
(* cleanOcrText                                                            *)
(***************************************************************************)
\* The three misread-glyph classes of the source hold characters beyond Latin-1
\* (U+0102, U+017B, U+02DB, U+0142, U+0105, U+015F, U+013D) and a soft hyphen,
\* which a TLA+ string cannot hold; the classes below keep their other members.
Closers == {"}", "]", "|", ")"}

cleanOcrLine(line) ==
  LET a == ReplaceAll(Regex(<<Cls({"®", "¬"}, 1, 1)>>, FALSE), line, Const("1"))
      b == ReplaceAll(Regex(<<Cls({"´", "¶"}, 1, 1)>>, FALSE), a, Const("0"))
      c == ReplaceAll(Regex(<<Cls({"»"}, 1, 1)>>, FALSE), b, Const("u"))
      d == ReplaceAll(Regex(<<Grp(1, <<Cls(Digit, 1, 1)>>), Cls(Closers, 1, INF)>>, FALSE), c,
                      Dollar(1))
      e == ReplaceAll(Regex(<<Cls(Closers, 1, INF), Grp(1, <<Cls(Digit, 1, 1)>>)>>, FALSE), d,
                      Dollar(1))
      f == ReplaceAll(Regex(<<Sp, Cls({"|", "}", "]", ")", "[", "{", "("}, 1, INF), Sp>>, FALSE),
                      e, Const(" "))
      g == ReplaceAll(Regex(<<Sp>>, FALSE), f, Const(" "))
  IN trim(g)

cleanOcrText(text) == [i \in 1..Len(text) |-> cleanOcrLine(text[i])]

(***************************************************************************)
(* Optional values: None is null/undefined, Some(v) a present value.       *)
(***************************************************************************)
None == <<>>

Some(v) == <<v>>

Val(o) == o[1]

Min(a, b) == IF a < b THEN a ELSE b

\* The value as it is, whatever the lower limit.
Unclamped(a, b) == b

Max(a, b) == IF a > b THEN a ELSE b

(***************************************************************************)
(* ZoneDetector.  Line indices are 0-based as in the source; lines[i + 1]  *)
(* is the source's lines[i].  Every operation that calls test() on the     *)
(* shared AMOUNT_PATTERN takes its lastIndex li and returns the new one.   *)
(***************************************************************************)
\* Phase 1 of detectZones: the first table-start cue.
RECURSIVE FindTableStart(_, _, _)
FindTableStart(lines, i, li) ==
  IF i >= Len(lines) THEN [headerEnd |-> 0, tableStart |-> 0, li |-> li]
  ELSE Let([line \in {trim(lines[i + 1])} |->
         IF line = "" THEN FindTableStart(lines, i + 1, li)
         ELSE IF Test(TABLE_HEADER, line)
              THEN [headerEnd |-> i, tableStart |-> i + 1, li |-> li]
         ELSE IF Test(EAN_FULL, line)
              THEN [headerEnd |-> Max(0, i - 1), tableStart |-> i, li |-> li]
         ELSE IF Test(REF_DASH, line)
              THEN Let([a \in {TestG(AMOUNT_PATTERN, line, li)} |->
                     IF a.ok THEN [headerEnd |-> Max(0, i - 1), tableStart |-> i, li |-> a.li]
                     ELSE FindTableStart(lines, i + 1, a.li)])
         ELSE FindTableStart(lines, i + 1, li)])

\* for (j = i; j < min(i + 4, n); j++) if (!AMOUNT_PATTERN.test(lines[j])) noAmountCount++
RECURSIVE CountNoAmount(_, _, _, _, _)
CountNoAmount(lines, j, stop, li, count) ==
  IF j >= stop THEN [count |-> count, li |-> li]
  ELSE Let([a \in {TestG(AMOUNT_PATTERN, lines[j + 1], li)} |->
         CountNoAmount(lines, j + 1, stop, a.li, IF a.ok THEN count ELSE count + 1)])

\* for (j = i; j < min(i + 5, n); j++) if (FOOTER_START.test(lines[j])) ... : first such j, or -1
RECURSIVE FindFooterKeyword(_, _, _)
FindFooterKeyword(lines, j, stop) ==
  IF j >= stop THEN -1
  ELSE IF Test(FOOTER_START, lines[j + 1]) THEN j
  ELSE FindFooterKeyword(lines, j + 1, stop)

\* Phase 2 of detectZones: the footer start after the table start.
RECURSIVE FindFooterStart(_, _, _, _)
FindFooterStart(lines, tableStart, i, li) ==
  LET n == Len(lines)
  IN IF i >= n THEN [tableEnd |-> n - 1, footerStart |-> n, li |-> li]
     ELSE Let([line \in {trim(lines[i + 1])} |->
            IF line = "" THEN FindFooterStart(lines, tableStart, i + 1, li)
            ELSE IF Test(FOOTER_START, line)
                 THEN [tableEnd |-> i - 1, footerStart |-> i, li |-> li]
            ELSE Let([c \in {CountNoAmount(lines, i, Min(i + 4, n), li, 0)} |->
                   Let([j \in {IF c.count >= 3 /\ i > tableStart + 5
                              THEN FindFooterKeyword(lines, i, Min(i + 5, n)) ELSE -1} |->
                     IF j >= 0 /\ j < n
                     THEN [tableEnd |-> i - 1, footerStart |-> j, li |-> c.li]
                     ELSE FindFooterStart(lines, tableStart, i + 1, c.li)])])])

detectZones(text, li) ==
  LET lines == text
      totalLines == Len(lines)
  IN Let([p1 \in {FindTableStart(lines, 0, li)} |->
       LET notFound == p1.tableStart = 0
           headerEnd == IF notFound THEN (totalLines * 15) \div 100 ELSE p1.headerEnd
           tableStart1 == IF notFound THEN headerEnd + 1 ELSE p1.tableStart
       IN Let([p2 \in {FindFooterStart(lines, tableStart1, tableStart1, p1.li)} |->
            LET noFooter == p2.footerStart = totalLines
                footerStart1 == IF noFooter THEN (totalLines * 85) \div 100 ELSE p2.footerStart
                tableEnd1 == IF noFooter THEN footerStart1 - 1 ELSE p2.tableEnd
                tableStart == Max(0, Min(tableStart1, totalLines - 1))
                tableEnd == Max(tableStart, Min(tableEnd1, totalLines - 1))
                footerStart == Max(tableEnd + 1, Min(footerStart1, totalLines))
            IN [headerEnd |-> headerEnd, tableStart |-> tableStart, tableEnd |-> tableEnd,
                footerStart |-> footerStart, li |-> p2.li]])])

NonEmpty(l) == l # ""

extractTableLines(text, li) ==
  Let([zones \in {detectZones(text, li)} |->
    Let([slice \in {SubSeq(text, zones.tableStart + 1, zones.tableEnd + 1)} |->
      [v |-> SelectSeq([i \in 1..Len(slice) |-> trim(slice[i])], NonEmpty), li |-> zones.li]])])

(***************************************************************************)
(* FragmentMerger                                                          *)
(***************************************************************************)
SplitWords(s) == Split(Regex(<<Sp>>, FALSE), s)

\* s.match(AMOUNT_PATTERN): all amounts of the line (and lastIndex becomes 0).
Amounts(s) == MatchAll(AMOUNT_PATTERN, s)

isTruncatedLine(line, li) ==
  IF line = "" \/ Len(line) < 10 THEN [v |-> FALSE, li |-> li]
  ELSE Let([trimmed \in {trim(line)} |->
       Let([ean \in {Test(EAN_FULL, trimmed)} |->
       Let([ref \in {Test(REF_DASH, trimmed)} |->
       Let([amounts \in {Len(Amounts(trimmed))} |->
       Let([lastWord \in {Let([words \in {SplitWords(trimmed)} |-> words[Len(words)]])} |->
         LET byEan == /\ ean
                      /\ amounts < 2
                      /\ \/ Len(lastWord) < 4
                         \/ Test(Regex(<<NotCls(LowerAZ \cup Digit, 1, 1), Eol>>, TRUE), lastWord)
             byRef == ref /\ amounts < 1 /\ ~Test(HAS_PERCENTAGE, trimmed)
             byEnd == /\ Test(Regex(<<Cls({".", "-", "/"}, 1, 1), Eol>>, FALSE), trimmed)
                      /\ Len(trimmed) > 20
                      /\ (ean \/ ref)
         IN [v |-> byEan \/ byRef \/ byEnd, li |-> IF ean \/ ref THEN 0 ELSE li]])])])])])

isFragment(line, li) ==
  IF line = "" \/ Len(line) < 5 THEN [v |-> FALSE, li |-> li]
  ELSE Let([trimmed \in {trim(line)} |->
       Let([t1 \in {IF Test(Regex(<<Bol, Cls({"-", ".", "/"}, 1, 1)>>, FALSE), trimmed)
                   THEN TestG(AMOUNT_PATTERN, trimmed, li) ELSE [ok |-> FALSE, li |-> li]} |->
         IF t1.ok THEN [v |-> TRUE, li |-> t1.li]
         ELSE IF Test(EAN_FULL, trimmed) \/ Test(REF_DASH, trimmed)
              THEN [v |-> FALSE, li |-> t1.li]
         ELSE Let([t2 \in {IF Test(Regex(<<Bol, Cls(LowerAZ, 1, 1)>>, FALSE), trimmed)
                          THEN TestG(AMOUNT_PATTERN, trimmed, t1.li)
                          ELSE [ok |-> FALSE, li |-> t1.li]} |->
                IF t2.ok /\ Len(Amounts(trimmed)) >= 2 THEN [v |-> TRUE, li |-> 0]
                ELSE Let([li2 \in {IF t2.ok THEN 0 ELSE t2.li} |->
                     Let([t3 \in {IF Test(Regex(<<Bol, Cls(Digit, 1, 3), Cls(WS, 1, 1)>>, FALSE), trimmed)
                                 THEN TestG(AMOUNT_PATTERN, trimmed, li2)
                                 ELSE [ok |-> FALSE, li |-> li2]} |->
                       [v |-> t3.ok, li |-> t3.li]])])])])])

\* The pass that, after a merge, advances past the first line only
RECURSIVE MergeOverlapping(_, _, _, _)
MergeOverlapping(lines, i, li, acc) ==
  IF i >= Len(lines) THEN [acc EXCEPT !.li = li]
  ELSE Let([current \in {trim(lines[i + 1])} |->
       Let([next \in {IF i + 1 < Len(lines) THEN trim(lines[i + 2]) ELSE ""} |->
       Let([t \in {isTruncatedLine(current, li)} |->
       Let([f \in {IF t.v THEN isFragment(next, t.li) ELSE [v |-> FALSE, li |-> t.li]} |->
         IF t.v /\ f.v
         THEN MergeOverlapping(lines, i + 1, f.li,
                        [acc EXCEPT !.lines = Append(@, current \o " " \o next),
                                    !.mergedIndices = @ \o <<i, i + 1>>,
                                    !.mergeCount = @ + 1])
         ELSE MergeOverlapping(lines, i + 1, f.li, [acc EXCEPT !.lines = Append(@, lines[i + 1])])])])])])

RECURSIVE MergeFrom(_, _, _, _)
MergeFrom(lines, i, li, acc) ==
  IF i >= Len(lines) THEN [acc EXCEPT !.li = li]
  ELSE Let([current \in {trim(lines[i + 1])} |->
       Let([next \in {IF i + 1 < Len(lines) THEN trim(lines[i + 2]) ELSE ""} |->
       Let([t \in {isTruncatedLine(current, li)} |->
       Let([f \in {IF t.v THEN isFragment(next, t.li) ELSE [v |-> FALSE, li |-> t.li]} |->
         IF t.v /\ f.v
         THEN MergeFrom(lines, i + 2, f.li,
                        [acc EXCEPT !.lines = Append(@, current \o " " \o next),
                                    !.mergedIndices = @ \o <<i, i + 1>>,
                                    !.mergeCount = @ + 1])
         ELSE MergeFrom(lines, i + 1, f.li, [acc EXCEPT !.lines = Append(@, lines[i + 1])])])])])])

merge(lines, li) ==
  MergeFrom(lines, 0, li, [lines |-> <<>>, mergeCount |-> 0, mergedIndices |-> <<>>, li |-> li])

(***************************************************************************)
(* MultiLineDetector.  It reads AMOUNT_PATTERN through match() only, which *)
(* leaves lastIndex at 0; `reset` tells whether match() was called.        *)
(***************************************************************************)
maxLookAhead == 3

startsWithIdentifier(line) ==
  Test(EAN_FULL, line) \/ Test(REF_DASH, line) \/ Test(REF_NUMERIC, line)

hasAmounts(line) == Len(Amounts(line)) >= 1

hasCompleteData(line) == startsWithIdentifier(line) /\ hasAmounts(line)

\* [\d\s.,\-\/\\%]+
NumericNoise == Cls(Digit \cup WS \cup {".", ",", "-", "/", "\\", "%"}, 1, INF)

looksLikeDescription(line) ==
  Let([textOnly \in {trim(ReplaceAll(Regex(<<NumericNoise>>, FALSE), line, Const("")))} |->
    /\ Len(textOnly) >= 5
     /\ ~(Test(IS_TOTAL, line) \/ Test(IS_HEADER, line))])

RECURSIVE SumLen(_)
SumLen(q) == IF q = <<>> THEN 0 ELSE Len(Head(q)) + SumLen(Tail(q))

looksLikeAmountsOnly(line) ==
  /\ Len(Amounts(line)) >= 2
  /\ LET numbersLength ==
           SumLen(MatchAll(Regex(<<Cls(Digit \cup WS \cup {".", ",", "%"}, 1, INF)>>, FALSE), line))
     IN 10 * numbersLength > 6 * Len(line)

looksLikeContinuation(line) ==
  \/ Test(Regex(<<Bol, Cls(LowerAZ, 1, 1)>>, FALSE), line)
  \/ Test(Regex(<<Bol, Cls({"-", ".", "/"}, 1, 1)>>, FALSE), line)
  \/ /\ Len(line) < 20
     /\ Test(Regex(<<Wb, Grp(1, <<Alt(<< <<Cls(Digit, 3, 3)>>, <<Cls(AZ, 2, 3)>> >>)>>), Wb>>,
                   FALSE), line)
  \/ Test(Regex(<<Bol, Cls(AZ \cup Digit \cup WS \cup {".", "/", "-"}, 3, 15), Eol>>, FALSE), line)

Tenth(n) == Norm(n, 10)

\* Pattern 1: an identifier line, then up to maxLookAhead lines until one has amounts.
RECURSIVE IdentifierLookahead(_, _, _, _)
IdentifierLookahead(lines, startIndex, j, g) ==
  IF j > maxLookAhead \/ startIndex + j >= Len(lines) THEN g
  ELSE LET nextLine == trim(lines[startIndex + j + 1])
       IN IF nextLine = "" THEN IdentifierLookahead(lines, startIndex, j + 1, g)
          ELSE IF startsWithIdentifier(nextLine) /\ hasAmounts(nextLine) THEN g
          ELSE IF Test(IS_TOTAL, nextLine) \/ Test(IS_HEADER, nextLine) THEN g
          ELSE LET g1 == [g EXCEPT !.lines = Append(@, nextLine),
                                   !.indices = Append(@, startIndex + j)]
               IN IF hasAmounts(nextLine)
                  THEN [g1 EXCEPT !.foundAmounts = TRUE,
                                  !.confidence =
                                     RAdd(@, IF Test(HAS_PERCENTAGE, nextLine)
                                             THEN Tenth(4) ELSE Tenth(3))]
                  ELSE IdentifierLookahead(lines, startIndex, j + 1,
                         IF looksLikeContinuation(nextLine)
                         THEN [g1 EXCEPT !.confidence = RAdd(@, Tenth(1))] ELSE g1)

\* Pattern 1 returning the lines gathered whether or not amounts were found
tryMergeWithoutAmounts(lines, startIndex) ==
  Let([g \in {IdentifierLookahead(lines, startIndex, 1,
               [lines |-> <<trim(lines[startIndex + 1])>>, indices |-> <<startIndex>>,
                foundAmounts |-> FALSE, confidence |-> Tenth(5)])} |->
    IF Len(g.lines) < 2 THEN None
    ELSE Some([lines |-> g.lines, indices |-> g.indices, merged |-> join(g.lines, " "),
               confidence |-> IF RLt(One, g.confidence) THEN One ELSE g.confidence])])

tryMergeFromIdentifier(lines, startIndex) ==
  Let([g \in {IdentifierLookahead(lines, startIndex, 1,
               [lines |-> <<trim(lines[startIndex + 1])>>, indices |-> <<startIndex>>,
                foundAmounts |-> FALSE, confidence |-> Tenth(5)])} |->
    IF ~g.foundAmounts \/ Len(g.lines) < 2 THEN None
    ELSE Some([lines |-> g.lines, indices |-> g.indices, merged |-> join(g.lines, " "),
               confidence |-> IF RLt(One, g.confidence) THEN One ELSE g.confidence])])

\* Pattern 2: a description line, continuation lines, then an amounts-only line.
RECURSIVE DescriptionLookahead(_, _, _, _)
DescriptionLookahead(lines, startIndex, j, g) ==
  IF j > maxLookAhead \/ startIndex + j >= Len(lines) THEN None
  ELSE LET nextLine == trim(lines[startIndex + j + 1])
       IN IF nextLine = "" THEN DescriptionLookahead(lines, startIndex, j + 1, g)
          ELSE IF startsWithIdentifier(nextLine) /\ hasAmounts(nextLine) THEN None
          ELSE IF Test(IS_TOTAL, nextLine) THEN None
          ELSE LET g1 == [g EXCEPT !.lines = Append(@, nextLine),
                                   !.indices = Append(@, startIndex + j)]
               IN IF looksLikeAmountsOnly(nextLine)
                  THEN LET c == RAdd(g.confidence, Tenth(4))
                       IN Some([lines |-> g1.lines, indices |-> g1.indices,
                                merged |-> join(g1.lines, " "),
                                confidence |-> IF RLt(One, c) THEN One ELSE c])
                  ELSE IF looksLikeContinuation(nextLine)
                       THEN DescriptionLookahead(lines, startIndex, j + 1,
                                                 [g1 EXCEPT !.confidence = RAdd(@, Tenth(1))])
                       ELSE None

tryMergeDescriptionWithAmounts(lines, startIndex) ==
  DescriptionLookahead(lines, startIndex, 1,
    [lines |-> <<trim(lines[startIndex + 1])>>, indices |-> <<startIndex>>,
     confidence |-> Tenth(4)])

detectMultiLineGroup(lines, startIndex) ==
  Let([startLine \in {trim(lines[startIndex + 1])} |->
    IF startLine = "" THEN [v |-> None, reset |-> FALSE]
    ELSE Let([identifier \in {startsWithIdentifier(startLine)} |->
           IF identifier /\ ~hasCompleteData(startLine)
           THEN [v |-> tryMergeFromIdentifier(lines, startIndex), reset |-> TRUE]
           ELSE Let([description \in {looksLikeDescription(startLine)} |->
                  IF description /\ ~hasAmounts(startLine)
                  THEN [v |-> tryMergeDescriptionWithAmounts(lines, startIndex), reset |-> TRUE]
                  ELSE [v |-> None, reset |-> identifier \/ description]])])])

RECURSIVE SeqMax(_)
SeqMax(q) == IF Len(q) = 1 THEN q[1] ELSE Max(q[1], SeqMax(Tail(q)))

RECURSIVE ProcessFrom(_, _, _)
ProcessFrom(lines, i, acc) ==
  IF i >= Len(lines) THEN acc
  ELSE IF trim(lines[i + 1]) = ""
       THEN ProcessFrom(lines, i + 1, [acc EXCEPT !.lines = Append(@, lines[i + 1])])
  ELSE Let([d \in {detectMultiLineGroup(lines, i)} |->
         LET acc1 == [acc EXCEPT !.reset = @ \/ d.reset]
         IN IF d.v # None /\ Len(Val(d.v).lines) > 1
            THEN ProcessFrom(lines, SeqMax(Val(d.v).indices) + 1,
                             [acc1 EXCEPT !.lines = Append(@, Val(d.v).merged),
                                          !.mergedGroups = Append(@, Val(d.v))])
            ELSE ProcessFrom(lines, i + 1, [acc1 EXCEPT !.lines = Append(@, lines[i + 1])])])

process(lines, li) ==
  Let([r \in {ProcessFrom(lines, 0, [lines |-> <<>>, mergedGroups |-> <<>>, reset |-> FALSE])} |->
    [lines |-> r.lines, mergedGroups |-> r.mergedGroups, originalCount |-> Len(lines),
     finalCount |-> Len(r.lines), li |-> IF r.reset THEN 0 ELSE li]])

(***************************************************************************)
(* LineScorer                                                              *)
(***************************************************************************)
threshold == 3

DEFAULT_NOISE_KEYWORDS ==
  <<"total a reporter", "total à reporter", "net à payer", "net a payer",
    "arrêtée la présente", "arretee la presente", "somme toutes taxes">>

Rejected(line, lineIndex, criterion, li) ==
  [line |-> line, lineIndex |-> lineIndex, score |-> -10, criteria |-> <<criterion>>,
   isProductLine |-> FALSE, li |-> li]

Scored(line, lineIndex, score, criteria, li) ==
  [line |-> line, lineIndex |-> lineIndex, score |-> score, criteria |-> criteria,
   isProductLine |-> score >= threshold, li |-> li]

\* The identifier criteria: the first pattern that matches, with its points.
IdentifierCriterion(line) ==
  IF Test(EAN_FULL, line) THEN [pts |-> 3, name |-> <<"EAN_FULL">>]
  ELSE IF Test(EAN_TRUNCATED, line) THEN [pts |-> 2, name |-> <<"EAN_TRUNCATED">>]
  ELSE IF Test(REF_DASH, line) THEN [pts |-> 3, name |-> <<"REF_DASH">>]
  ELSE IF Test(REF_NUMERIC, line) THEN [pts |-> 3, name |-> <<"REF_NUMERIC">>]
  ELSE IF Test(INDEX_NUMERIC, line) THEN [pts |-> 1, name |-> <<"INDEX_NUMERIC">>]
  ELSE [pts |-> 0, name |-> <<>>]

ColumnCount(line) == Len(SelectSeq(Split(MULTI_COLUMN, line), LAMBDA c : trim(c) # ""))

scoreLine(line, lineIndex, allLines, noiseKeywords, li) ==
  IF Len(line) < 10 THEN Rejected(line, lineIndex, "TOO_SHORT", li)
  ELSE IF Test(IS_TOTAL, line) THEN Rejected(line, lineIndex, "IS_TOTAL", li)
  ELSE
    Let([hasAmountsT \in {TestG(AMOUNT_PATTERN, line, li)} |->
    Let([li1 \in {hasAmountsT.li} |->
      IF Test(IS_HEADER, line) /\ ~hasAmountsT.ok
      THEN Rejected(line, lineIndex, "IS_HEADER", li1)
      ELSE IF \E k \in 1..Len(noiseKeywords) :
                 includes(toLowerCase(line), toLowerCase(noiseKeywords[k]))
      THEN Rejected(line, lineIndex, "NOISE_KEYWORD", li1)
      ELSE
        Let([id \in {IdentifierCriterion(line)} |->
          IF id.pts >= threshold THEN Scored(line, lineIndex, id.pts, id.name, li1)
          ELSE
            Let([pct \in {Test(HAS_PERCENTAGE, line)} |->
            Let([a2 \in {[s |-> IF pct THEN id.pts + 1 ELSE id.pts,
                         c |-> IF pct THEN Append(id.name, "HAS_PERCENTAGE") ELSE id.name]} |->
              IF pct /\ a2.s >= threshold THEN Scored(line, lineIndex, a2.s, a2.c, li1)
              ELSE
                Let([n \in {Len(Amounts(line))} |->
                Let([a3 \in {[s |-> IF n >= 2 THEN a2.s + 2 ELSE IF n = 1 THEN a2.s + 1 ELSE a2.s,
                             c |-> IF n >= 2 THEN Append(a2.c, "HAS_MULTIPLE_AMOUNTS")
                                   ELSE IF n = 1 THEN Append(a2.c, "HAS_AMOUNT") ELSE a2.c]} |->
                  IF n >= 2 /\ a3.s >= threshold THEN Scored(line, lineIndex, a3.s, a3.c, 0)
                  ELSE
                    Let([qty \in {\/ Test(QUANTITY_PATTERN, line)
                                 \/ Test(Regex(<<Bol, Cls(Digit, 1, 3), Cls(WS, 1, 1)>>, FALSE), line)} |->
                    Let([a4 \in {[s |-> IF qty THEN a3.s + 1 ELSE a3.s,
                                 c |-> IF qty THEN Append(a3.c, "HAS_QUANTITY") ELSE a3.c]} |->
                      IF qty /\ a4.s >= threshold THEN Scored(line, lineIndex, a4.s, a4.c, 0)
                      ELSE
                        Let([cols \in {ColumnCount(line)} |->
                        Let([a5 \in {[s |-> IF cols >= 4 THEN a4.s + 2
                                           ELSE IF cols >= 3 THEN a4.s + 1 ELSE a4.s,
                                     c |-> IF cols >= 4 THEN Append(a4.c, "MULTI_COLUMN_4+")
                                           ELSE IF cols >= 3 THEN Append(a4.c, "MULTI_COLUMN_3")
                                           ELSE a4.c]} |->
                        Let([adj \in {\/ Test(EAN_FULL, IF lineIndex >= 1 /\ lineIndex - 1 < Len(allLines)
                                                       THEN allLines[lineIndex] ELSE "")
                                     \/ Test(EAN_FULL, IF lineIndex + 1 < Len(allLines)
                                                       THEN allLines[lineIndex + 2] ELSE "")} |->
                          Scored(line, lineIndex, IF adj THEN a5.s + 1 ELSE a5.s,
                                 IF adj THEN Append(a5.c, "ADJACENT_PRODUCT") ELSE a5.c,
                                 0)])])])])])])])])])])])])


RECURSIVE ScoreFrom(_, _, _, _, _)
ScoreFrom(lines, i, noiseKeywords, li, acc) ==
  IF i >= Len(lines) THEN [v |-> acc, li |-> li]
  ELSE Let([line \in {trim(lines[i + 1])} |->
         IF line = "" THEN ScoreFrom(lines, i + 1, noiseKeywords, li, acc)
         ELSE Let([r \in {scoreLine(line, i, lines, noiseKeywords, li)} |->
                ScoreFrom(lines, i + 1, noiseKeywords, r.li,
                          Append(acc, [line |-> r.line, lineIndex |-> r.lineIndex,
                                       score |-> r.score, criteria |-> r.criteria,
                                       isProductLine |-> r.isProductLine]))])])

scoreAllLines(lines, noiseKeywords, li) == ScoreFrom(lines, 0, noiseKeywords, li, <<>>)

(***************************************************************************)
(* LineItemExtractor.  An invoice line is a record; a null field is None.  *)
(* isCorrupted is FALSE where the source leaves _isCorrupted undefined.    *)
(***************************************************************************)
Truthy(o) == o # None /\ Val(o) # ""

OrEmpty(o) == IF o = None THEN "" ELSE Val(o)

PosOrNull(x) == IF RPos(x) THEN Some(x) ELSE None

Pct(n) == Norm(n, 100)

DEFAULT_CONFIDENCE ==
  [reference |-> Zero, designation |-> Zero, quantity |-> Zero, unitPrice |-> Zero,
   total |-> Zero]

calculateConfidence(reference, designation, quantity, unitPrice, total) ==
  [reference |-> IF Truthy(reference) /\ Len(Val(reference)) >= 4 THEN Pct(90)
                 ELSE IF Truthy(reference) THEN Pct(60) ELSE Zero,
   designation |-> IF Truthy(designation) /\ Len(Val(designation)) >= 3 THEN Pct(85)
                   ELSE IF Truthy(designation) THEN Pct(50) ELSE Zero,
   quantity |-> IF RPos(quantity) THEN Pct(90) ELSE Zero,
   unitPrice |-> IF RPos(unitPrice) THEN Pct(90) ELSE Zero,
   total |-> IF RPos(total) THEN Pct(90)
             ELSE IF RPos(quantity) /\ RPos(unitPrice) THEN Pct(70) ELSE Zero]

\* [=\[\]{}|\\]
Artifacts == {"=", "[", "]", "{", "}", "|", "\\"}

\* [=\[\]{}|\\<>@#$%^&*]
Specials == Artifacts \cup {"<", ">", "@", "#", "$", "%", "^", "&", "*"}

\* [=\[\]{}|\\<>@#$%^&*()]
SpecialsParen == Specials \cup {"(", ")"}

detectSuspiciousExtraction(line) ==
  Let([ref \in {OrEmpty(line.reference)} |->
  Let([designation \in {OrEmpty(line.designation)} |->
    IF ref # "" /\ Len(ref) <= 2 /\ ~Test(Regex(<<Bol, Cls(Digit, 1, INF), Eol>>, FALSE), ref)
    THEN [isSuspicious |-> TRUE, reason |-> Some("suspicious_reference")]
    ELSE IF designation # "" /\ Test(Regex(<<Bol, Cls(Specials, 1, 1)>>, FALSE), designation)
    THEN [isSuspicious |-> TRUE, reason |-> Some("corrupted_designation")]
    ELSE IF /\ designation # ""
            /\ Len(MatchAll(Regex(<<Cls(SpecialsParen, 1, 1)>>, FALSE), designation)) > 2
    THEN [isSuspicious |-> TRUE, reason |-> Some("too_many_special_chars")]
    ELSE IF ref # "" /\ Test(Regex(<<Cls(SpecialsParen, 1, 1)>>, FALSE), ref)
    THEN [isSuspicious |-> TRUE, reason |-> Some("reference_ocr_artifacts")]
    ELSE IF /\ designation # ""
            /\ Test(Regex(<<Lit("."), Cls(Digit, 1, INF), Lit("."), Cls(AZ, 1, INF), Lit("."),
                            Cls(Digit, 1, INF)>>, TRUE), designation)
    THEN [isSuspicious |-> TRUE, reason |-> Some("garbled_designation")]
    ELSE IF /\ line.rawText # ""
            /\ Test(Regex(<<Cls(Artifacts, 1, 1)>>, FALSE), line.rawText)
            /\ line.extractionMethod # "barcode"
    THEN [isSuspicious |-> TRUE, reason |-> Some("ocr_artifacts_in_source")]
    ELSE [isSuspicious |-> FALSE, reason |-> None]])])

\* A suspicious line is flagged as corrupted without being sent to review.
flagCorruptionIfSuspicious(line) ==
  Let([suspicion \in {detectSuspiciousExtraction(line)} |->
    IF suspicion.isSuspicious
    THEN [line EXCEPT !.isCorrupted = TRUE, !.corruptionReason = suspicion.reason]
    ELSE line])

\* A suspicious line is sent to review and flagged as corrupted with the reason.
markCorruptionIfSuspicious(line) ==
  Let([suspicion \in {detectSuspiciousExtraction(line)} |->
    IF suspicion.isSuspicious
    THEN [line EXCEPT !.needsReview = TRUE, !.isCorrupted = TRUE,
                      !.corruptionReason = suspicion.reason]
    ELSE line])

isValidExtraction(line) ==
  IF ~Truthy(line.designation) /\ ~Truthy(line.reference) THEN FALSE
  ELSE IF line.quantity = None /\ line.unitPriceHT = None /\ line.totalHT = None THEN FALSE
  ELSE TRUE

detectCorruption(rawText, reference, designation) ==
  Let([amounts \in {Len(Amounts(rawText))} |->
  Let([hasPercentage \in {Test(HAS_PERCENTAGE, rawText)} |->
  Let([hasQuantity \in {\/ Test(QUANTITY_PATTERN, rawText)
                       \/ Test(Regex(<<Bol, Cls(Digit, 1, 3), Cls(WS, 1, 1)>>, FALSE), rawText)} |->
  Let([hasOcrArtifacts \in {\/ Test(Regex(<<Cls(Artifacts, 1, 1)>>, FALSE), rawText)
                           \/ Test(Regex(<<Cls(Digit, 2, INF), Lit("."), Cls(Digit, 2, 2), Lit("."),
                                           Cls(Digit, 2, 2)>>, FALSE), rawText)
                           \/ Test(Regex(<<Cls(AZ, 1, 2), Sp0, Cls(Digit, 3, INF)>>, TRUE),
                                   SubSeq(rawText, 1, Min(10, Len(rawText))))} |->
    LET hasAmts == amounts > 0
        indicators == (hasAmts \/ hasPercentage) /\ hasQuantity
    IN IF indicators /\ ~Truthy(reference) /\ ~Truthy(designation)
       THEN [isCorrupted |-> TRUE, reason |-> Some("ocr_unreadable")]
       ELSE IF indicators /\ hasOcrArtifacts
       THEN [isCorrupted |-> TRUE, reason |-> Some("ocr_artifacts")]
       ELSE IF indicators /\ hasAmts /\ amounts >= 2
       THEN [isCorrupted |-> TRUE, reason |-> Some("parsing_failed")]
       ELSE IF Truthy(reference) /\ Len(Val(reference)) < 4 /\ hasAmts
       THEN [isCorrupted |-> TRUE, reason |-> Some("partial_reference")]
       ELSE IF hasAmts /\ hasPercentage /\ ~Truthy(reference) /\ ~Truthy(designation)
       THEN [isCorrupted |-> TRUE, reason |-> Some("structure_unrecognized")]
       ELSE [isCorrupted |-> FALSE, reason |-> None]])])])])

\* rawText.substring(n).trim().split(/\s{2,}/)[0] || null
FirstColumn(rawText, n) ==
  Let([first \in {Split(Regex(<<Cls(WS, 2, INF)>>, FALSE), trim(substring(rawText, n)))[1]} |->
    IF first = "" THEN None ELSE Some(first)])

\* A placeholder that keeps the position of the line and drops its text.
createBlankLine(rawText, lineIndex, defaultVatRate) ==
  [reference |-> None, designation |-> None, quantity |-> None, unit |-> None,
   unitPriceHT |-> None, discountRate |-> None, totalHT |-> None, vatRate |-> defaultVatRate,
   rawText |-> "", confidence |-> DEFAULT_CONFIDENCE, needsReview |-> TRUE,
   lineIndex |-> lineIndex, extractionMethod |-> "detected_only",
   isCorrupted |-> FALSE, corruptionReason |-> None]

\* The placeholder of a line no strategy parsed: its raw text, its leading reference
\* and first column when it has them, and what detectCorruption finds.
createEmptyLine(rawText, lineIndex, defaultVatRate) ==
  Let([m \in {Let([eanMatch \in {Exec(Regex(<<Bol, Grp(1, <<Cls(Digit, 6, 14)>>)>>, FALSE), rawText, 1)} |->
                   IF eanMatch.ok THEN eanMatch
                   ELSE Exec(Regex(<<Bol, Grp(1, <<Cls(AlNum, 1, 5), Cls(WS \cup {"-"}, 1, 1),
                                                   Cls(AlNum, 1, INF)>>)>>, TRUE), rawText, 1)])} |->
  Let([reference \in {IF m.ok THEN Some(Cap(rawText, m, 1)) ELSE None} |->
  Let([designation \in {IF m.ok THEN FirstColumn(rawText, Len(Matched(rawText, m))) ELSE None} |->
  Let([corruption \in {detectCorruption(rawText, reference, designation)} |->
    [reference |-> reference, designation |-> designation, quantity |-> None, unit |-> None,
     unitPriceHT |-> None, discountRate |-> None, totalHT |-> None, vatRate |-> defaultVatRate,
     rawText |-> rawText, confidence |-> DEFAULT_CONFIDENCE, needsReview |-> TRUE,
     lineIndex |-> lineIndex, extractionMethod |-> "detected_only",
     isCorrupted |-> corruption.isCorrupted, corruptionReason |-> corruption.reason]])])])])

\* A line as the format strategies build it (no corruption fields set).
ExtractedLine(reference, designation, quantity, unit, unitPriceHT, discountRate, totalHT,
              vatRate, rawText, confidence, needsReview, lineIndex, method) ==
  [reference |-> reference, designation |-> designation, quantity |-> quantity, unit |-> unit,
   unitPriceHT |-> unitPriceHT, discountRate |-> discountRate, totalHT |-> totalHT,
   vatRate |-> vatRate, rawText |-> rawText, confidence |-> confidence,
   needsReview |-> needsReview, lineIndex |-> lineIndex, extractionMethod |-> method,
   isCorrupted |-> FALSE, corruptionReason |-> None]

NotPos(x) == ~RPos(x)

tryBarcodeFormat(line, lineIndex, defaultVatRate) ==
  IF ~Test(EAN_FULL, line) THEN None
  ELSE Let([match \in {Exec(LINE_BARCODE, line, 1)} |->
         IF ~match.ok THEN None
         ELSE Let([reference \in {Cap(line, match, 1)} |->
              Let([designation \in {trim(Cap(line, match, 2))} |->
              Let([quantity \in {parseNumber(Cap(line, match, 3))} |->
              Let([unitPrice \in {parseNumber(cleanNumeric(Cap(line, match, 4)))} |->
              Let([discountPercent \in {parseNumber(Cap(line, match, 5))} |->
              Let([total \in {parseNumber(cleanNumeric(Cap(line, match, 6)))} |->
              Let([calculatedTotal \in {IF RPos(total) THEN total
                                       ELSE RMul(quantity, calculateNetPrice(unitPrice, discountPercent))} |->
                IF NotPos(quantity) /\ NotPos(unitPrice) THEN None
                ELSE Some(ExtractedLine(
                       Some(reference), Some(designation), PosOrNull(quantity), None,
                       PosOrNull(unitPrice),
                       IF RPos(discountPercent) THEN Some(RDiv(discountPercent, Hundred))
                       ELSE None,
                       PosOrNull(calculatedTotal), defaultVatRate, line,
                       calculateConfidence(Some(reference), Some(designation), quantity,
                                           unitPrice, total),
                       NotPos(quantity) \/ NotPos(unitPrice) \/ NotPos(total),
                       lineIndex, "barcode"))])])])])])])])])

tryExtendedFormat(line, lineIndex, defaultVatRate) ==
  Let([match \in {Exec(LINE_EXTENDED, line, 1)} |->
    IF ~match.ok THEN None
     ELSE Let([reference \in {trim(Cap(line, match, 1))} |->
          Let([designation \in {trim(Cap(line, match, 2))} |->
          Let([quantity \in {parseNumber(Cap(line, match, 3))} |->
          Let([unitPrice \in {parseNumber(cleanNumeric(Cap(line, match, 4)))} |->
          Let([discountPercent \in {parseNumber(Cap(line, match, 5))} |->
          Let([total \in {parseNumber(cleanNumeric(Cap(line, match, 6)))} |->
          Let([calculatedTotal \in {IF RPos(total) THEN total
                                     ELSE RMul(quantity, calculateNetPrice(unitPrice, discountPercent))} |->
            IF NotPos(quantity) /\ NotPos(unitPrice) THEN None
             ELSE Some(ExtractedLine(
                    Some(reference), Some(designation), PosOrNull(quantity), None,
                    PosOrNull(unitPrice),
                    IF RPos(discountPercent) THEN Some(RDiv(discountPercent, Hundred)) ELSE None,
                    PosOrNull(calculatedTotal), defaultVatRate, line,
                    calculateConfidence(Some(reference), Some(designation), quantity, unitPrice,
                                        total),
                    NotPos(quantity) \/ NotPos(unitPrice), lineIndex, "extended"))])])])])])])])])

tryWithDiscountFormat(line, lineIndex, defaultVatRate) ==
  Let([match \in {Exec(LINE_WITH_DISCOUNT, line, 1)} |->
    IF ~match.ok THEN None
     ELSE Let([reference \in {trim(Cap(line, match, 1))} |->
          Let([designation \in {trim(Cap(line, match, 2))} |->
          Let([quantity \in {parseNumber(Cap(line, match, 3))} |->
          Let([unitPrice \in {parseNumber(Cap(line, match, 4))} |->
          Let([discountPercent \in {parseNumber(Cap(line, match, 5))} |->
          Let([total \in {parseNumber(Cap(line, match, 6))} |->
            IF NotPos(quantity) /\ NotPos(unitPrice) THEN None
             ELSE Some(ExtractedLine(
                    Some(reference), Some(designation), PosOrNull(quantity), None,
                    PosOrNull(unitPrice),
                    IF RPos(discountPercent) THEN Some(RDiv(discountPercent, Hundred)) ELSE None,
                    Some(IF RPos(total) THEN total
                         ELSE RMul(RMul(quantity, unitPrice),
                                   RSub(One, RDiv(discountPercent, Hundred)))),
                    defaultVatRate, line,
                    calculateConfidence(Some(reference), Some(designation), quantity, unitPrice,
                                        total),
                    NotPos(quantity) \/ NotPos(unitPrice), lineIndex, "with_discount"))])])])])])])])

\* designation.match(/^([A-Z0-9]{3,15})\s/i), upper-cased
extractReference(designation) ==
  Let([match \in {Exec(Regex(<<Bol, Grp(1, <<Cls(AlNum, 3, 15)>>), Cls(WS, 1, 1)>>, TRUE),
                               designation, 1)} |->
    IF match.ok THEN Some(toUpperCase(Cap(designation, match, 1))) ELSE None])

\* s.replace(w, ''): the first occurrence of w is removed.
RemoveFirst(s, w) ==
  Let([k \in {indexOf(s, w, 1)} |->
    IF k = 0 THEN s ELSE SubSeq(s, 1, k - 1) \o SubSeq(s, k + Len(w), Len(s))])

tryFullFormat(line, lineIndex, defaultVatRate) ==
  Let([match \in {Exec(LINE_FULL, line, 1)} |->
    IF ~match.ok THEN None
     ELSE Let([quantity \in {parseNumber(Cap(line, match, 2))} |->
          Let([unitPrice \in {parseNumber(Cap(line, match, 4))} |->
          Let([total \in {parseNumber(Cap(line, match, 5))} |->
          Let([designation \in {trim(Cap(line, match, 1))} |->
          Let([reference \in {extractReference(designation)} |->
          Let([unit \in {toLowerCase(Cap(line, match, 3))} |->
            IF NotPos(quantity) /\ NotPos(unitPrice) THEN None
             ELSE Some(ExtractedLine(
                    reference,
                    Some(IF Truthy(reference) THEN trim(RemoveFirst(designation, Val(reference)))
                         ELSE designation),
                    PosOrNull(quantity),
                    IF unit = "" THEN None ELSE Some(unit),
                    PosOrNull(unitPrice), None,
                    Some(IF RPos(total) THEN total ELSE RMul(quantity, unitPrice)),
                    defaultVatRate, line,
                    calculateConfidence(reference, Some(designation), quantity, unitPrice, total),
                    NotPos(quantity) \/ NotPos(unitPrice), lineIndex, "full"))])])])])])])])

RECURSIVE ToDigits(_)
ToDigits(n) == IF n < 10 THEN At("0123456789", n + 1)
               ELSE ToDigits(n \div 10) \o At("0123456789", (n % 10) + 1)

trySimpleFormat(line, lineIndex, defaultVatRate) ==
  Let([match \in {Exec(LINE_SIMPLE, line, 1)} |->
    IF ~match.ok THEN None
     ELSE Let([quantity \in {parseNumber(Cap(line, match, 1))} |->
          Let([unitPrice \in {parseNumber(Cap(line, match, 2))} |->
            IF NotPos(quantity) \/ NotPos(unitPrice) THEN None
             ELSE Some(ExtractedLine(
                    None, Some("Article (ligne " \o ToDigits(lineIndex + 1) \o ")"),
                    Some(quantity), None, Some(unitPrice), None,
                    Some(RMul(quantity, unitPrice)), defaultVatRate, line,
                    [reference |-> Zero, designation |-> Pct(30), quantity |-> Pct(80),
                     unitPrice |-> Pct(80), total |-> Pct(70)],
                    TRUE, lineIndex, "simple"))])])])

tryFallbackFormat(line, lineIndex, defaultVatRate) ==
  Let([match \in {Exec(LINE_FALLBACK, line, 1)} |->
    IF ~match.ok THEN None
     ELSE Let([reference \in {trim(Cap(line, match, 1))} |->
          Let([designation \in {trim(Cap(line, match, 2))} |->
          Let([quantity \in {parseNumber(Cap(line, match, 3))} |->
          Let([unitPrice \in {parseNumber(cleanNumeric(Cap(line, match, 4)))} |->
            IF NotPos(quantity) /\ NotPos(unitPrice) THEN None
             ELSE Some(ExtractedLine(
                    Some(reference), Some(designation), PosOrNull(quantity), None,
                    PosOrNull(unitPrice), None,
                    IF RPos(quantity) /\ RPos(unitPrice) THEN Some(RMul(quantity, unitPrice))
                    ELSE None,
                    defaultVatRate, line,
                    calculateConfidence(Some(reference), Some(designation), quantity, unitPrice,
                                        Zero),
                    TRUE, lineIndex, "fallback"))])])])])])

(***************************************************************************)
(* LooseFallbackExtractor                                                  *)
(***************************************************************************)
\* The confidence of a strict extraction
FullConfidence ==
  [reference |-> One, designation |-> One, quantity |-> One, unitPrice |-> One, total |-> One]

LOOSE_CONFIDENCE ==
  [reference |-> Pct(40), designation |-> Pct(50), quantity |-> Pct(60), unitPrice |-> Pct(60),
   total |-> Pct(50)]

createLooseLine(reference, designation, quantity, unitPrice, discountPercent, total, rawText,
                lineIndex, defaultVatRate, extractionMethod) ==
  [reference |-> reference, designation |-> designation, quantity |-> PosOrNull(quantity),
   unit |-> None, unitPriceHT |-> PosOrNull(unitPrice),
   discountRate |-> IF RPos(discountPercent) THEN Some(RDiv(discountPercent, Hundred)) ELSE None,
   totalHT |-> PosOrNull(total), vatRate |-> defaultVatRate, rawText |-> rawText,
   confidence |->
     [reference |-> IF ~Truthy(reference) THEN Zero ELSE LOOSE_CONFIDENCE.reference,
      designation |-> IF ~Truthy(designation) \/ startsWith(Val(designation), "Article")
                      THEN Pct(30) ELSE LOOSE_CONFIDENCE.designation,
      quantity |-> IF NotPos(quantity) THEN Zero ELSE LOOSE_CONFIDENCE.quantity,
      unitPrice |-> IF NotPos(unitPrice) THEN Zero ELSE LOOSE_CONFIDENCE.unitPrice,
      total |-> IF NotPos(total) THEN Zero ELSE LOOSE_CONFIDENCE.total],
   needsReview |-> TRUE, lineIndex |-> lineIndex, extractionMethod |-> extractionMethod,
   isCorrupted |-> FALSE, corruptionReason |-> None]

\* text.match(/\d+(?:[.,]\d+)?/g) parsed, the positive ones kept
extractNumbers(text) ==
  SelectSeq(MapSeq(MatchAll(Regex(Number, FALSE), text), parseNumber), RPos)

\* s.match(/(\d+(?:[.,]\d+)?)\s*%/): the discount percentage, 0 when absent
DiscountIn(s) ==
  Let([m \in {Exec(Regex(<<Grp(1, Number), Sp0, Lit("%")>>, FALSE), s, 1)} |->
    IF m.ok THEN parseNumber(Cap(s, m, 1)) ELSE Zero])

StrOrNull(w) == IF w = "" THEN None ELSE Some(w)

\* /^([a-z0-9\-\.]{2,})\s+(.+?)\s+(\d+(?:[\.,]\d+)?)\s+([\d\s\.,\]\[\}\{\)\|f]+)\s*([\d\.\s]*%?)?\s*([\d\s\.,]*)?/i
LOOSE_EXTENDED ==
  Regex(<<Bol, Grp(1, <<Cls(LowerAZ \cup Digit \cup {"-", "."}, 2, INF)>>), Sp,
          Grp(2, <<Lazy(Dot(1, INF))>>), Sp, Grp(3, Number), Sp, Grp(4, <<ArtifactRun>>), Sp0,
          Opt(<<Grp(5, <<Cls(Digit \cup WS \cup {"."}, 0, INF), Cls({"%"}, 0, 1)>>)>>), Sp0,
          Opt(<<Grp(6, <<Cls(Digit \cup WS \cup {".", ","}, 0, INF)>>)>>)>>, TRUE)

tryExtendedOcrArtifacts(line, lineIndex, defaultVatRate) ==
  Let([match \in {Exec(LOOSE_EXTENDED, line, 1)} |->
    IF ~match.ok THEN None
     ELSE Let([reference \in {StrOrNull(trim(Cap(line, match, 1)))} |->
          Let([designation \in {StrOrNull(trim(Cap(line, match, 2)))} |->
          Let([g3 \in {Cap(line, match, 3)} |->
          Let([g4 \in {Cap(line, match, 4)} |->
          Let([quantity \in {parseNumber(IF g3 = "" THEN "0" ELSE g3)} |->
          Let([unitPrice \in {parseNumber(cleanNumeric(IF g4 = "" THEN "0" ELSE g4))} |->
          Let([discountPercent \in {DiscountIn(Cap(line, match, 5))} |->
          Let([parsed \in {parseNumber(cleanNumeric(Cap(line, match, 6)))} |->
          Let([total \in {IF NotPos(parsed) /\ RPos(quantity) /\ RPos(unitPrice)
                                  THEN RMul(quantity, calculateNetPrice(unitPrice, discountPercent))
                                  ELSE parsed} |->
            IF ~Truthy(designation) /\ ~Truthy(reference) THEN None
             ELSE IF NotPos(quantity) /\ NotPos(unitPrice) THEN None
             ELSE Some(createLooseLine(reference, designation, quantity, unitPrice,
                                       discountPercent, total, line, lineIndex, defaultVatRate,
                                       "loose_extended_ocr"))])])])])])])])])])])

\* rest.search(/\d/): 0-based index of the first digit, -1 when there is none
SearchDigit(s) ==
  Let([m \in {Exec(Regex(<<Cls(Digit, 1, 1)>>, FALSE), s, 1)} |->
    IF m.ok THEN m.s - 1 ELSE -1])

tryCodeWithAmounts(line, lineIndex, defaultVatRate) ==
  Let([codeMatch \in {Exec(Regex(<<Bol, Grp(1, <<Cls(AlNum, 1, 1),
                                                             Cls(AlNum \cup {"-", ".", "/"}, 2, 20)>>), Sp>>,
                                             TRUE), line, 1)} |->
    IF ~codeMatch.ok THEN None
     ELSE Let([reference \in {Cap(line, codeMatch, 1)} |->
          Let([rest \in {substring(line, Len(Matched(line, codeMatch)))} |->
          Let([numbers \in {extractNumbers(rest)} |->
            IF Len(numbers) < 2 THEN None
             ELSE Let([total \in {numbers[Len(numbers)]} |->
                  Let([priceOrQty \in {numbers[Len(numbers) - 1]} |->
                  Let([firstNum \in {numbers[1]} |->
                  Let([quantity \in {IF /\ Len(numbers) >= 3
                                                   /\ RLe(firstNum, Hundred)
                                                   /\ isInteger(firstNum)
                                                THEN firstNum ELSE One} |->
                  Let([unitPrice \in {priceOrQty} |->
                  Let([firstNumberIndex \in {SearchDigit(rest)} |->
                  Let([designation \in {IF firstNumberIndex > 0
                                                      THEN trim(SubSeq(rest, 1, firstNumberIndex)) ELSE ""} |->
                    Some(createLooseLine(
                            Some(reference),
                            Some(IF designation # "" THEN designation
                                 ELSE "Article " \o reference),
                            quantity, unitPrice, DiscountIn(rest), total, line, lineIndex,
                            defaultVatRate, "loose_code_amounts"))])])])])])])])])])])])

\* /(\d+)\s*[xX..]\s*(\d+(?:[.,]\d+)?)/ where the class also holds U+00C3 and U+2014;
\* the latter lies beyond Latin-1 and no text of the model contains it.
LOOSE_QTY_PRICE ==
  Regex(<<Grp(1, <<Cls(Digit, 1, INF)>>), Sp0, Cls({"x", "X", "Ã"}, 1, 1), Sp0,
          Grp(2, Number)>>, FALSE)

tryMinimalQtyPrice(line, lineIndex, defaultVatRate) ==
  Let([match \in {Exec(LOOSE_QTY_PRICE, line, 1)} |->
    IF ~match.ok THEN None
     ELSE Let([quantity \in {Whole(DigitsVal(Cap(line, match, 1)))} |->
          Let([unitPrice \in {parseNumber(Cap(line, match, 2))} |->
            IF RPos(quantity) /\ RPos(unitPrice)
             THEN Some(createLooseLine(None,
                                       Some("Article (ligne " \o ToDigits(lineIndex + 1) \o ")"),
                                       quantity, unitPrice, Zero, RMul(quantity, unitPrice),
                                       line, lineIndex, defaultVatRate, "loose_qty_price"))
             ELSE None])])])

Meaningful(n) == RLt(n, Whole(2000)) \/ RLt(Whole(2100), n)

RECURSIVE RMaxOf(_)
RMaxOf(q) == IF Len(q) = 1 THEN q[1] ELSE RMax(q[1], RMaxOf(Tail(q)))

tryMultipleNumbers(line, lineIndex, defaultVatRate) ==
  Let([numbers \in {extractNumbers(line)} |->
  Let([meaningfulNumbers \in {SelectSeq(numbers, Meaningful)} |->
    IF Len(numbers) < 2 THEN None
     ELSE IF Len(meaningfulNumbers) < 2 THEN None
     ELSE Let([total \in {meaningfulNumbers[Len(meaningfulNumbers)]} |->
          Let([qtys \in {SelectSeq(meaningfulNumbers,
                                          LAMBDA n : RPos(n) /\ RLe(n, Hundred) /\ isInteger(n))} |->
          Let([quantity \in {IF qtys # <<>> THEN qtys[1] ELSE One} |->
          Let([priceNumbers \in {SelectSeq(SubSeq(meaningfulNumbers, 1, Len(meaningfulNumbers) - 1),
                                                          LAMBDA n : RLt(Whole(10), n))} |->
          Let([unitPrice \in {IF priceNumbers # <<>> THEN RMaxOf(priceNumbers)
                                          ELSE RDiv(total, quantity)} |->
          Let([textOnly \in {trim(ReplaceAll(Regex(<<NumericNoise>>, FALSE), line, Const(" ")))} |->
          Let([designation \in {IF Len(textOnly) >= 3 THEN textOnly
                                              ELSE "Article (ligne " \o ToDigits(lineIndex + 1) \o ")"} |->
          Let([refMatch \in {Exec(Regex(<<Bol, Grp(1, <<Cls(AlNum, 1, 1),
                                                                   Cls(AlNum \cup {"-", "."}, 2, 15)>>)>>,
                                                   TRUE), line, 1)} |->
          Let([reference \in {IF refMatch.ok THEN Some(Cap(line, refMatch, 1)) ELSE None} |->
            Some(createLooseLine(reference, Some(designation), quantity, unitPrice,
                                  DiscountIn(line), total, line, lineIndex, defaultVatRate,
                                  "loose_multi_numbers"))])])])])])])])])])])])

\* A loose strategy's line under the strategy's name, otherwise the next strategy.
OrStrategy(result, name, next) ==
  IF result # None THEN [line |-> result, strategy |-> Some(name)] ELSE next

\* LooseFallbackExtractor.extract: the first loose strategy that yields a line.
extract(rawText, lineIndex, defaultVatRate) ==
  IF trim(rawText) = "" \/ Len(trim(rawText)) < 10 THEN [line |-> None, strategy |-> None]
  ELSE OrStrategy(tryExtendedOcrArtifacts(trim(rawText), lineIndex, defaultVatRate),
                  "loose_extended_ocr",
       OrStrategy(tryCodeWithAmounts(trim(rawText), lineIndex, defaultVatRate),
                  "loose_code_amounts",
       OrStrategy(tryMinimalQtyPrice(trim(rawText), lineIndex, defaultVatRate),
                  "loose_qty_price",
       OrStrategy(tryMultipleNumbers(trim(rawText), lineIndex, defaultVatRate),
                  "loose_multi_numbers",
                  [line |-> None, strategy |-> None]))))

(***************************************************************************)
(* LineItemExtractor: one line, the whole text, the pipeline.              *)
(***************************************************************************)
Accepted(result) == result # None /\ isValidExtraction(Val(result))

Marked(result) == [line |-> markCorruptionIfSuspicious(Val(result)), reset |-> FALSE]

\* A strategy's result when it is a valid extraction, otherwise the next strategy.
OrNext(result, next) == IF Accepted(result) THEN Marked(result) ELSE next

\* The loose extractor's line is returned as it is.
OrLoose(looseResult, next) ==
  IF Accepted(looseResult.line) THEN [line |-> Val(looseResult.line), reset |-> FALSE]
  ELSE next

\* The strategies with the fallback format consulted first
extractFallbackFirst(scoredLine, defaultVatRate) ==
  OrNext(tryFallbackFormat(scoredLine.line, scoredLine.lineIndex, defaultVatRate),
  OrNext(tryBarcodeFormat(scoredLine.line, scoredLine.lineIndex, defaultVatRate),
  OrNext(tryExtendedFormat(scoredLine.line, scoredLine.lineIndex, defaultVatRate),
  OrNext(tryWithDiscountFormat(scoredLine.line, scoredLine.lineIndex, defaultVatRate),
  OrNext(tryFullFormat(scoredLine.line, scoredLine.lineIndex, defaultVatRate),
  OrNext(trySimpleFormat(scoredLine.line, scoredLine.lineIndex, defaultVatRate),
  OrLoose(extract(scoredLine.line, scoredLine.lineIndex, defaultVatRate),
          [line |-> createEmptyLine(scoredLine.line, scoredLine.lineIndex, defaultVatRate),
           reset |-> TRUE])))))))

\* `reset` tells whether the placeholder was built, whose corruption check runs
\* match() on AMOUNT_PATTERN and so leaves its lastIndex at 0.
extractSingleLine(scoredLine, defaultVatRate) ==
  OrNext(tryBarcodeFormat(scoredLine.line, scoredLine.lineIndex, defaultVatRate),
  OrNext(tryExtendedFormat(scoredLine.line, scoredLine.lineIndex, defaultVatRate),
  OrNext(tryWithDiscountFormat(scoredLine.line, scoredLine.lineIndex, defaultVatRate),
  OrNext(tryFullFormat(scoredLine.line, scoredLine.lineIndex, defaultVatRate),
  OrNext(trySimpleFormat(scoredLine.line, scoredLine.lineIndex, defaultVatRate),
  OrNext(tryFallbackFormat(scoredLine.line, scoredLine.lineIndex, defaultVatRate),
  OrLoose(extract(scoredLine.line, scoredLine.lineIndex, defaultVatRate),
          [line |-> createEmptyLine(scoredLine.line, scoredLine.lineIndex, defaultVatRate),
           reset |-> TRUE])))))))

RECURSIVE FullTextFrom(_, _, _, _, _, _)
FullTextFrom(textLines, i, lineIndex, defaultVatRate, li, acc) ==
  IF i > Len(textLines) THEN [v |-> acc, li |-> li]
  ELSE Let([trimmed \in {trim(textLines[i])} |->
         IF trimmed = "" \/ Len(trimmed) < 10
          THEN FullTextFrom(textLines, i + 1, lineIndex, defaultVatRate, li, acc)
          ELSE IF Test(IS_TOTAL, trimmed)
          THEN FullTextFrom(textLines, i + 1, lineIndex, defaultVatRate, li, acc)
          ELSE Let([header \in {Test(IS_HEADER, trimmed)} |->
               Let([a \in {IF header THEN TestG(AMOUNT_PATTERN, trimmed, li)
                               ELSE [ok |-> FALSE, li |-> li]} |->
                 IF header /\ ~a.ok
                  THEN FullTextFrom(textLines, i + 1, lineIndex, defaultVatRate, a.li, acc)
                  ELSE Let([r \in {extractSingleLine([line |-> trimmed, lineIndex |-> lineIndex],
                                                         defaultVatRate)} |->
                       Let([li1 \in {IF r.reset THEN 0 ELSE a.li} |->
                       Let([result \in {r.line} |->
                         IF \/ Truthy(result.designation)
                             \/ Truthy(result.reference)
                             \/ result.quantity # None
                          THEN FullTextFrom(textLines, i + 1, lineIndex + 1, defaultVatRate, li1,
                                            Append(acc, result))
                          ELSE FullTextFrom(textLines, i + 1, lineIndex, defaultVatRate, li1, acc)])])])])])])

extractFromFullText(text, defaultVatRate, li) == FullTextFrom(text, 1, 0, defaultVatRate, li, <<>>)

Count(q, P(_)) == Len(SelectSeq(q, P))

IsCandidate(l) == l.score > -5

\* Only the candidates from which a strategy parsed a line are kept.
ExtractParsed(candidateLines, defaultVatRate) ==
  SelectSeq([k \in 1..Len(candidateLines) |->
               extractSingleLine(candidateLines[k], defaultVatRate)],
            LAMBDA r : ~r.reset)

\* for (const scoredLine of candidateLines) extractedLines.push(extractSingleLine(...))
ExtractEach(candidateLines, defaultVatRate) ==
  [k \in 1..Len(candidateLines) |-> extractSingleLine(candidateLines[k], defaultVatRate)]

\* The lines, the statistics, the candidate lines they were produced from and
\* the lastIndex the call leaves in AMOUNT_PATTERN.
extractLinesWithStats(text, defaultVatRate, li) ==
  Let([cleanedText \in {cleanOcrText(text)} |->
  Let([tableLines \in {extractTableLines(cleanedText, li)} |->
  Let([fragmentMerged \in {merge(tableLines.v, tableLines.li)} |->
  Let([merged \in {process(fragmentMerged.lines, fragmentMerged.li)} |->
  Let([allScoredLines \in {scoreAllLines(merged.lines, <<>>, merged.li)} |->
  Let([candidateLines \in {SelectSeq(allScoredLines.v, IsCandidate)} |->
    IF Len(candidateLines) = 0
    THEN Let([fallback \in {extractFromFullText(cleanedText, defaultVatRate, allScoredLines.li)} |->
           [lines |-> fallback.v,
            stats |-> [detected |-> Len(fallback.v),
                       extracted |-> Count(fallback.v, LAMBDA l : ~l.needsReview),
                       partial |-> Count(fallback.v,
                                         LAMBDA l : l.needsReview /\ Truthy(l.designation)),
                       failed |-> Count(fallback.v,
                                        LAMBDA l : l.needsReview /\ ~Truthy(l.designation))],
            candidateLines |-> candidateLines, li |-> fallback.li]])
    ELSE Let([results \in {ExtractEach(candidateLines, defaultVatRate)} |->
         Let([extractedLines \in {[k \in 1..Len(results) |-> results[k].line]} |->
           [lines |-> extractedLines,
            stats |-> [detected |-> Len(candidateLines),
                       extracted |-> Count(extractedLines, LAMBDA l : ~l.needsReview),
                       partial |-> Count(extractedLines,
                                         LAMBDA l : /\ l.needsReview
                                                    /\ (\/ Truthy(l.designation)
                                                        \/ Truthy(l.reference))),
                       failed |-> Count(extractedLines,
                                        LAMBDA l : /\ l.needsReview
                                                   /\ ~Truthy(l.designation)
                                                   /\ ~Truthy(l.reference))],
            candidateLines |-> candidateLines,
            li |-> IF \E k \in 1..Len(results) : results[k].reset THEN 0
                   ELSE allScoredLines.li]])])])])])])])])

(***************************************************************************)
(* TotalsValidator.  Warnings and suggestions keep their kind, line index  *)
(* and value; the wording of their messages is left out.                   *)
(***************************************************************************)
TOTALS_DEFAULT_CONFIG ==
  [tolerancePercent |-> Whole(1), absoluteTolerance |-> Whole(1),
   averageLineValue |-> Whole(500), maxAllowedDiffPercent |-> Whole(5)]

\* Math.round(x): the nearest integer, halves rounded up
Round(x) == (2 * x[1] + x[2]) \div (2 * x[2])

\* Math.round(x * 100) / 100
Round2(x) == Norm(Round(RMul(x, Hundred)), 100)

\* line.quantity * line.unitPriceHT * (1 - (line.discountRate ?? 0))
LineProduct(line) ==
  RMul(RMul(Val(line.quantity), Val(line.unitPriceHT)),
       RSub(One, IF line.discountRate = None THEN Zero ELSE Val(line.discountRate)))

HasTotal(line) == line.totalHT # None /\ RPos(Val(line.totalHT))

HasProduct(line) == line.quantity # None /\ line.unitPriceHT # None

\* The first loop of validate: the running total and the per-line findings.
RECURSIVE SumLines(_, _, _)
SumLines(lines, i, acc) ==
  IF i >= Len(lines) THEN acc
  ELSE IF HasTotal(lines[i + 1])
  THEN SumLines(lines, i + 1,
                [acc EXCEPT !.calculatedTotalHT = RAdd(@, Val(lines[i + 1].totalHT)),
                            !.validLines = @ + 1])
  ELSE IF HasProduct(lines[i + 1])
  THEN SumLines(lines, i + 1,
                [acc EXCEPT !.calculatedTotalHT = RAdd(@, LineProduct(lines[i + 1])),
                            !.calculatedTotals = @ + 1,
                            !.suggestions =
                               Append(@, [type |-> "total_mismatch", lineIndex |-> Some(i),
                                          suggestedValue |-> Some(LineProduct(lines[i + 1]))])])
  ELSE SumLines(lines, i + 1,
                [acc EXCEPT !.missingTotals = @ + 1, !.warnings = Append(@, "missing_data")])

RECURSIVE RSum(_)
RSum(q) == IF q = <<>> THEN Zero ELSE RAdd(q[1], RSum(Tail(q)))

Sq(x) == RMul(x, x)

\* The sum of the squared distances of the totals to avg.
SumSq(totals, avg) == RSum([k \in 1..Len(totals) |-> Sq(RSub(totals[k], avg))])

\* |(total - avg) / stdDev| > 3, the square root taken out: n (t - avg)^2 > 9 sum (ti - avg)^2
FarFrom(total, avg, sumSq, n) == RLt(RMul(Whole(9), sumSq), RMul(Whole(n), Sq(RSub(total, avg))))

IsOutlier(total, totals) ==
  Let([avg \in {RDiv(RSum(totals), Whole(Len(totals)))} |->
    FarFrom(total, avg, SumSq(totals, avg), Len(totals))])

\* lineDiff > 1 && lineDiff / total > 0.05
Mismatch(lineDiff, total) ==
  /\ RLt(One, lineDiff)
  /\ (total = Zero \/ RLt(Pct(5), RDiv(lineDiff, total)))

WithOutlier(acc, outlier, i) ==
  IF outlier
  THEN [warnings |-> Append(acc.warnings, "unusual_amount"),
        suggestions |-> Append(acc.suggestions,
                               [type |-> "price_error", lineIndex |-> Some(i),
                                suggestedValue |-> None])]
  ELSE acc

WithMismatch(acc, line, i) ==
  IF /\ HasProduct(line)
     /\ line.totalHT # None
     /\ Mismatch(RAbs(RSub(LineProduct(line), Val(line.totalHT))), Val(line.totalHT))
  THEN [acc EXCEPT !.suggestions =
                      Append(@, [type |-> "total_mismatch", lineIndex |-> Some(i),
                                 suggestedValue |-> Some(LineProduct(line))])]
  ELSE acc

RECURSIVE AnomaliesFrom(_, _, _, _)
AnomaliesFrom(lines, totals, i, acc) ==
  IF i >= Len(lines) THEN acc
  ELSE AnomaliesFrom(lines, totals, i + 1,
         WithMismatch(WithOutlier(acc, /\ HasTotal(lines[i + 1])
                                       /\ IsOutlier(Val(lines[i + 1].totalHT), totals), i),
                      lines[i + 1], i))

\* lines.map(l => l.totalHT).filter(t => t !== null && t > 0)
PositiveTotals(lines) ==
  Let([withTotal \in {SelectSeq(lines, HasTotal)} |->
    [k \in 1..Len(withTotal) |-> Val(withTotal[k].totalHT)]])

detectLineAnomalies(lines, suggestions, warnings) ==
  Let([totals \in {PositiveTotals(lines)} |->
    IF Len(totals) < 2 THEN [warnings |-> warnings, suggestions |-> suggestions]
    ELSE AnomaliesFrom(lines, totals, 0, [warnings |-> warnings, suggestions |-> suggestions])])

\* difference <= absoluteTolerance alone
IsWithinAbsolute(percentageDiff, difference, config) ==
  RLe(difference, config.absoluteTolerance)

\* percentageDiff <= tolerancePercent || difference <= absoluteTolerance
IsWithin(percentageDiff, difference, config) ==
  RLe(percentageDiff, config.tolerancePercent) \/ RLe(difference, config.absoluteTolerance)

\* expectedTotalHT > 0 ? (difference / expectedTotalHT) * 100 : 0
PercentageDiff(difference, expectedTotalHT) ==
  IF RPos(expectedTotalHT) THEN RMul(RDiv(difference, expectedTotalHT), Hundred) ELSE Zero

\* Math.round(gap / averageLineValue) when the lines fall short of an invalid total
EstimatedMissingLines(isValid, calculatedTotalHT, expectedTotalHT, config) ==
  IF ~isValid /\ RLt(calculatedTotalHT, expectedTotalHT)
  THEN Round(RDiv(RSub(expectedTotalHT, calculatedTotalHT), config.averageLineValue))
  ELSE 0

\* The findings of the first loop, then those on missing lines and over-extraction.
Findings(sum, missing, over) ==
  [warnings |-> (IF missing THEN <<"missing_lines">> ELSE <<>>)
                  \o (IF over THEN <<"over_extraction">> ELSE <<>>),
   suggestions |-> (IF missing
                    THEN <<[type |-> "missing_line", lineIndex |-> None,
                            suggestedValue |-> None]>>
                    ELSE <<>>)
                     \o (IF over
                         THEN <<[type |-> "price_error", lineIndex |-> None,
                                 suggestedValue |-> None]>>
                         ELSE <<>>)]

\* The general warnings pushed after the line anomalies.
GeneralWarnings(missingTotals, percentageDiff, config) ==
  (IF missingTotals > 0 THEN <<"no_total">> ELSE <<>>)
    \o (IF RLt(config.maxAllowedDiffPercent, percentageDiff) THEN <<"large_gap">> ELSE <<>>)

validate(lines, totals, config) ==
  Let([sum \in {SumLines(lines, 0, [calculatedTotalHT |-> Zero, validLines |-> 0,
                                   missingTotals |-> 0, calculatedTotals |-> 0,
                                   warnings |-> <<>>, suggestions |-> <<>>])} |->
  Let([difference \in {RAbs(RSub(sum.calculatedTotalHT, totals.totalHT))} |->
  Let([percentageDiff \in {PercentageDiff(difference, totals.totalHT)} |->
  Let([isValid \in {IsWithin(percentageDiff, difference, config)} |->
  Let([estimatedMissingLines \in {EstimatedMissingLines(isValid, sum.calculatedTotalHT,
                                                        totals.totalHT, config)} |->
  Let([found \in {Findings(sum, estimatedMissingLines > 0,
                           RLt(RMul(totals.totalHT, Norm(11, 10)), sum.calculatedTotalHT))} |->
  Let([anomalies \in {detectLineAnomalies(lines, sum.suggestions \o found.suggestions,
                                          sum.warnings \o found.warnings)} |->
    [isValid |-> isValid, calculatedTotalHT |-> Round2(sum.calculatedTotalHT),
     expectedTotalHT |-> totals.totalHT, difference |-> Round2(difference),
     percentageDiff |-> Round2(percentageDiff),
     details |-> [validLines |-> sum.validLines, missingTotals |-> sum.missingTotals,
                  calculatedTotals |-> sum.calculatedTotals,
                  estimatedMissingLines |-> estimatedMissingLines],
     warnings |-> anomalies.warnings
                    \o GeneralWarnings(sum.missingTotals, percentageDiff, config),
     suggestions |-> anomalies.suggestions]])])])])])])])

\* TotalsValidator.quickValidate: the sum of the lines' totals, a line without a
\* total counted by quantity x price x (1 - discount), within the larger tolerance
QuickTotal(lines) ==
  RSum([k \in 1..Len(lines) |->
          IF lines[k].totalHT # None THEN Val(lines[k].totalHT)
          ELSE IF HasProduct(lines[k]) THEN LineProduct(lines[k])
          ELSE Zero])

quickValidate(lines, expectedTotalHT, config) ==
  Let([difference \in {RAbs(RSub(QuickTotal(lines), expectedTotalHT))} |->
  Let([tolerance \in {RMax(config.absoluteTolerance,
                          RMul(expectedTotalHT, RDiv(config.tolerancePercent, Hundred)))} |->
    RLe(difference, tolerance)])])

(***************************************************************************)
(* ContactExtractor: the dispatch of collected address lines into street  *)
(* and streetLine2.                                                        *)
(***************************************************************************)
\* À-Ü and à-ü
AccentUpper == Chars("ÀÁÂÃÄÅÆÇÈÉÊËÌÍÎÏÐÑÒÓÔÕÖ×ØÙÚÛÜ")

AccentLower == Chars("àáâãäåæçèéêëìíîïðñòóôõöøùúûü")

\* [A-ZÀ-Ü] under the i flag
LetterCI == AZaz \cup AccentUpper \cup AccentLower

\* rue|avenue|av\.|boulevard|bd|place|chemin|route|allée|impasse|voie
StreetWord ==
  Alt(<< <<Lit("rue")>>, <<Lit("avenue")>>, <<Lit("av.")>>, <<Lit("boulevard")>>, <<Lit("bd")>>,
         <<Lit("place")>>, <<Lit("chemin")>>, <<Lit("route")>>, <<Lit("allée")>>,
         <<Lit("impasse")>>, <<Lit("voie")>> >>)

\* /^\d+[\s,].*(?:rue|avenue|av\.|boulevard|bd|place|chemin|route|allée|impasse|voie)/i
NUMBERED_STREET ==
  Regex(<<Bol, Cls(Digit, 1, INF), Cls(WS \cup {","}, 1, 1), Dot(0, INF), StreetWord>>, TRUE)

\* d['']activit[ée]s?
Activites == <<Lit("d"), Cls({"'"}, 1, 1), Lit("activit"), Cls({"é", "e"}, 1, 1), Cls({"s"}, 0, 1)>>

\* r[ée]sidence
Residence == <<Lit("r"), Cls({"é", "e"}, 1, 1), Lit("sidence")>>

\* The location words; short is what follows the abbreviations cc, zi, zac and imm.
LocationWord(short) ==
  Alt(<< <<Lit("galerie")>>, <<Lit("centre"), Sp, Lit("commercial")>>, <<Lit("cc")>> \o short,
         <<Lit("zone"), Sp, Lit("industrielle")>>, <<Lit("zi")>> \o short, <<Lit("zac")>> \o short,
         <<Lit("zone"), Sp>> \o Activites, Residence, <<Lit("immeuble")>>, <<Lit("imm")>> \o short,
         <<Lit("quartier")>>, <<Lit("lotissement")>>, <<Lit("parc"), Sp>> \o Activites,
         <<Lit("business"), Sp, Lit("park")>>, <<Lit("shopping"), Sp, Lit("center")>>,
         <<Lit("mall")>>, <<Lit("espace"), Sp, Lit("commercial")>> >>)

\* /^(?:galerie|centre\s+commercial|cc\s|zone\s+industrielle|zi\s|zac\s|...|espace\s+commercial)/i
LOCATION_KEYWORDS == Regex(<<Bol, LocationWord(<<Cls(WS, 1, 1)>>)>>, TRUE)

\* /^((?:galerie|...|cc|...|zi|zac|...|imm|...)(?:\s+(?:marchande?|industriel(?:le)?|commercial(?:e)?))?
\*    \s+[A-ZÀ-Ü][A-Za-zÀ-ü\s\-']*)/i
LOCATION_FULL ==
  Regex(<<Bol,
          Grp(1, <<LocationWord(<<>>),
                   Opt(<<Sp, Alt(<< <<Lit("marchand"), Cls({"e"}, 0, 1)>>,
                                    <<Lit("industriel"), Opt(<<Lit("le")>>)>>,
                                    <<Lit("commercial"), Opt(<<Lit("e")>>)>> >>)>>),
                   Sp, Cls(LetterCI, 1, 1),
                   Cls(LetterCI \cup WS \cup {"Ý", "Þ", "ß", "-", "'"}, 0, INF)>>)>>, TRUE)

\* /^\d+[\s,]/
StartsWithNumber == Regex(<<Bol, Cls(Digit, 1, INF), Cls(WS \cup {","}, 1, 1)>>, FALSE)

isNumberedStreet(line) ==
  \/ Test(NUMBERED_STREET, trim(line))
  \/ Test(StartsWithNumber, trim(line)) /\ Test(Regex(<<StreetWord>>, TRUE), trim(line))

isLocation(line) ==
  \/ Test(LOCATION_KEYWORDS, trim(line))
  \/ Test(LOCATION_FULL, trim(line))

\* [...lines].join(', ') || null
JoinedOrNull(lines) == IF Len(lines) > 0 THEN Some(join(lines, ", ")) ELSE None

Last(q) == q[Len(q)]

\* The lines in their order: the first is the street, whatever its kind.
dispatchInOrder(lines) ==
  IF lines = <<>> THEN [street |-> None, streetLine2 |-> None]
  ELSE [street |-> Some(Head(lines)), streetLine2 |-> JoinedOrNull(Tail(lines))]

dispatchAddressLines(lines) ==
  IF lines = <<>> THEN [street |-> None, streetLine2 |-> None]
  ELSE LET numbered == SelectSeq(lines, isNumberedStreet)
           locations == SelectSeq(lines, LAMBDA l : ~isNumberedStreet(l) /\ isLocation(l))
           otherLines == SelectSeq(lines, LAMBDA l : ~isNumberedStreet(l) /\ ~isLocation(l))
       IN IF numbered # <<>>
          THEN [street |-> Some(Last(numbered)),
                streetLine2 |-> JoinedOrNull(SelectSeq(locations \o otherLines, LAMBDA l : l # ""))]
          ELSE IF locations # <<>>
          THEN [street |-> Some(Head(locations)),
                streetLine2 |-> JoinedOrNull(SelectSeq(Tail(locations) \o otherLines, LAMBDA l : l # ""))]
          ELSE [street |-> Some(Head(otherLines)), streetLine2 |-> JoinedOrNull(Tail(otherLines))]

(***************************************************************************)
(* CityLookup: the city, country and street-keyword tables and the line    *)
(* tests built on them.                                                    *)
(***************************************************************************)
moroccanCities ==
  {"casablanca", "rabat", "marrakech", "fes", "fès", "tanger", "tangier",
   "agadir", "meknes", "meknès", "oujda", "kenitra", "kénitra", "tetouan",
   "tétouan", "safi", "mohammedia", "el jadida", "beni mellal", "béni mellal",
   "nador", "taza", "settat", "berrechid", "khemisset", "khémisset",
   "khouribga", "sale", "salé", "temara", "témara",
   "inezgane", "ouarzazate", "essaouira", "laayoune", "laâyoune", "dakhla",
   "errachidia", "guelmim", "taroudant", "larache", "ksar el kebir",
   "fnideq", "berkane", "taourirt", "fquih ben salah", "youssoufia",
   "sidi kacem", "sidi slimane", "midelt", "azrou", "ifrane",
   "ain sebaa", "sidi maarouf", "bouskoura", "nouaceur", "had soualem"}

frenchCities ==
  {"paris", "marseille", "lyon", "toulouse", "nice", "nantes", "strasbourg",
   "montpellier", "bordeaux", "lille", "rennes", "reims", "le havre",
   "saint-étienne", "saint-etienne", "toulon", "grenoble", "dijon", "angers",
   "nîmes", "nimes", "villeurbanne", "le mans", "aix-en-provence",
   "clermont-ferrand", "brest", "tours", "limoges", "amiens", "perpignan",
   "metz", "besançon", "besancon", "orléans", "orleans", "mulhouse", "rouen",
   "caen", "nancy", "argenteuil", "montreuil", "saint-denis"}

belgianCities ==
  {"bruxelles", "brussels", "anvers", "antwerp", "gand", "ghent", "charleroi",
   "liège", "liege", "bruges", "brugge", "namur", "leuven", "louvain", "mons"}

spanishCities ==
  {"madrid", "barcelona", "valencia", "sevilla", "seville", "zaragoza",
   "málaga", "malaga", "murcia", "palma", "bilbao", "alicante", "córdoba",
   "cordoba", "valladolid", "vigo", "gijón", "gijon"}

\* The map keeps its insertion order.
countryKeywords ==
  << <<"maroc", "MA">>, <<"morocco", "MA">>, <<"france", "FR">>,
     <<"belgique", "BE">>, <<"belgium", "BE">>,
     <<"espagne", "ES">>, <<"spain", "ES">>, <<"españa", "ES">>,
     <<"suisse", "CH">>, <<"switzerland", "CH">>, <<"schweiz", "CH">>,
     <<"allemagne", "DE">>, <<"germany", "DE">>, <<"deutschland", "DE">>,
     <<"italie", "IT">>, <<"italy", "IT">>, <<"italia", "IT">>,
     <<"pays-bas", "NL">>, <<"netherlands", "NL">>, <<"nederland", "NL">>,
     <<"portugal", "PT">>,
     <<"royaume-uni", "GB">>, <<"united kingdom", "GB">>, <<"uk", "GB">> >>

streetKeywords ==
  {"rue", "avenue", "av.", "av", "boulevard", "bd", "blvd", "allée", "impasse",
   "passage", "place", "chemin", "route", "voie",
   "lot", "lotissement", "résidence", "immeuble", "imm", "quartier", "zone",
   "zone industrielle", "zi", "galerie", "centre", "angle", "n°", "numéro",
   "calle", "avenida", "paseo", "plaza"}

multiWordCities ==
  <<"el jadida", "beni mellal", "béni mellal", "ksar el kebir",
    "fquih ben salah", "sidi kacem", "sidi slimane", "sidi maarouf",
    "ain sebaa", "had soualem", "saint-étienne", "saint-etienne",
    "le havre", "le mans", "aix-en-provence", "clermont-ferrand",
    "saint-denis">>

\* The multi-word city names the text includes, then text.split(/[\s,\-;.]+/)
\* without the words shorter than 3.
extractTokens(text) ==
  SelectSeq(multiWordCities, LAMBDA city : includes(text, city))
  \o SelectSeq(Split(Regex(<<Cls(WS \cup {",", "-", ";", "."}, 1, INF)>>, FALSE), text),
               LAMBDA w : Len(w) >= 3)

CapitalizeWord(word) ==
  IF word = "" THEN "" ELSE toUpperCase(At(word, 1)) \o toLowerCase(SubSeq(word, 2, Len(word)))

capitalize(t) == join(MapSeq(Split(Regex(<<Cls(WS \cup {"-"}, 1, 1)>>, FALSE), t), CapitalizeWord), " ")

CityInfo(token, country, confidence) ==
  Some([city |-> capitalize(token), country |-> country, confidence |-> confidence])

RECURSIVE FindCityIn(_, _)
FindCityIn(tokens, i) ==
  IF i > Len(tokens) THEN None
  ELSE IF tokens[i] \in moroccanCities THEN CityInfo(tokens[i], "MA", Tenth(9))
  ELSE IF tokens[i] \in frenchCities THEN CityInfo(tokens[i], "FR", Tenth(9))
  ELSE IF tokens[i] \in belgianCities THEN CityInfo(tokens[i], "BE", Pct(85))
  ELSE IF tokens[i] \in spanishCities THEN CityInfo(tokens[i], "ES", Pct(85))
  ELSE FindCityIn(tokens, i + 1)

findCity(t) == FindCityIn(extractTokens(toLowerCase(t)), 1)

RECURSIVE FindCountryIn(_, _)
FindCountryIn(lowerText, i) ==
  IF i > Len(countryKeywords) THEN None
  ELSE IF includes(lowerText, countryKeywords[i][1])
  THEN Some([country |-> capitalize(countryKeywords[i][1]), countryCode |-> countryKeywords[i][2],
             confidence |-> Pct(95)])
  ELSE FindCountryIn(lowerText, i + 1)

findCountry(t) == FindCountryIn(toLowerCase(t), 1)

\* An alternation of literal words
OneOf(words) == Alt([i \in 1..Len(words) |-> <<Lit(words[i])>>])

\* n[°o]?
NumeroMark == <<Lit("n"), Cls({"°", "o"}, 0, 1)>>

\* \s*:?\s*\d{4,}
ColonNumber == <<Sp0, Cls({":"}, 0, 1), Sp0, Cls(Digit, 4, INF)>>

isDocumentLine(lowerLine) ==
  \* /facture\s*(n[°o]?|pro|avoir)?/i
  \/ Test(Regex(<<Lit("facture"), Sp0,
                  Opt(<<Alt(<<NumeroMark, <<Lit("pro")>>, <<Lit("avoir")>> >>)>>)>>, TRUE), lowerLine)
  \* /\bn[°o]?\s*:?\s*\d{4,}/i
  \/ Test(Regex(<<Wb>> \o NumeroMark \o ColonNumber, TRUE), lowerLine)
  \* /\b(bl|bc|br)\s*(n[°o]?)?/i
  \/ Test(Regex(<<Wb, OneOf(<<"bl", "bc", "br">>), Sp0, Opt(NumeroMark)>>, TRUE), lowerLine)
  \* /bon\s*(de\s*)?(livraison|commande|réception)/i
  \/ Test(Regex(<<Lit("bon"), Sp0, Opt(<<Lit("de"), Sp0>>),
                  OneOf(<<"livraison", "commande", "réception">>)>>, TRUE), lowerLine)
  \* /devis\s*(n[°o]?)?/i, /avoir\s*(n[°o]?)?/i, /proforma/i
  \/ Test(Regex(<<Lit("devis"), Sp0, Opt(NumeroMark)>>, TRUE), lowerLine)
  \/ Test(Regex(<<Lit("avoir"), Sp0, Opt(NumeroMark)>>, TRUE), lowerLine)
  \/ Test(Regex(<<Lit("proforma")>>, TRUE), lowerLine)
  \* /\w+\s+n[°o]?\s*:?\s*\d{4,}/i
  \/ Test(Regex(<<Cls(WordChar, 1, INF), Sp>> \o NumeroMark \o ColonNumber, TRUE), lowerLine)

\* \s*[.:]
DotOrColon == <<Sp0, Cls({".", ":"}, 1, 1)>>

\* \.?
Dot01 == Cls({"."}, 0, 1)

\* [/\-.]
DateSep == Cls({"/", "-", "."}, 1, 1)

isStopLine(line) ==
  LET lowerLine == trim(toLowerCase(line))
  IN \* /^(ice|i\.?f\.?|r\.?c\.?|cnss|patente|tp)\s*[.:]/i
     \/ Test(Regex(<<Bol, Alt(<< <<Lit("ice")>>, <<Lit("i"), Dot01, Lit("f"), Dot01>>,
                                 <<Lit("r"), Dot01, Lit("c"), Dot01>>, <<Lit("cnss")>>,
                                 <<Lit("patente")>>, <<Lit("tp")>> >>)>> \o DotOrColon, TRUE), lowerLine)
     \* /^(siret|siren|tva\s*intra|n°?\s*tva)\s*[.:]/i
     \/ Test(Regex(<<Bol, Alt(<< <<Lit("siret")>>, <<Lit("siren")>>, <<Lit("tva"), Sp0, Lit("intra")>>,
                                 <<Lit("n"), Cls({"°"}, 0, 1), Sp0, Lit("tva")>> >>)>> \o DotOrColon,
                   TRUE), lowerLine)
     \* /siret\s*[.:]\s*\d/i
     \/ Test(Regex(<<Lit("siret")>> \o DotOrColon \o <<Sp0, Cls(Digit, 1, 1)>>, TRUE), lowerLine)
     \* /^(tél|tel|phone|fax|email|@|gsm|mobile)\s*[.:]/i
     \/ Test(Regex(<<Bol, OneOf(<<"tél", "tel", "phone", "fax", "email", "@", "gsm", "mobile">>)>>
                   \o DotOrColon, TRUE), lowerLine)
     \* /^(code\s*client|n°?\s*facture|date|bl\s*n)/i
     \/ Test(Regex(<<Bol, Alt(<< <<Lit("code"), Sp0, Lit("client")>>,
                                 <<Lit("n"), Cls({"°"}, 0, 1), Sp0, Lit("facture")>>,
                                 <<Lit("date")>>, <<Lit("bl"), Sp0, Lit("n")>> >>)>>, TRUE), lowerLine)
     \* /facture\s*(n[°o]?|pro|avoir)?/i
     \/ Test(Regex(<<Lit("facture"), Sp0,
                     Opt(<<Alt(<<NumeroMark, <<Lit("pro")>>, <<Lit("avoir")>> >>)>>)>>, TRUE), lowerLine)
     \* /^(bl|bc|br|devis|avoir|proforma)\s*(n[°o]?)?/i
     \/ Test(Regex(<<Bol, OneOf(<<"bl", "bc", "br", "devis", "avoir", "proforma">>), Sp0,
                     Opt(NumeroMark)>>, TRUE), lowerLine)
     \* /bon\s*(de\s*)?(livraison|commande)/i
     \/ Test(Regex(<<Lit("bon"), Sp0, Opt(<<Lit("de"), Sp0>>), OneOf(<<"livraison", "commande">>)>>,
                   TRUE), lowerLine)
     \* /^\d{8,14}\s/
     \/ Test(EAN_FULL, lowerLine)
     \* /^\d{1,2}[/\-.]\d{1,2}[/\-.]\d{2,4}/
     \/ Test(Regex(<<Bol, Cls(Digit, 1, 2), DateSep, Cls(Digit, 1, 2), DateSep, Cls(Digit, 2, 4)>>,
                   FALSE), lowerLine)

\* /\b(\d{5})\b/
POSTAL_CODE == Regex(<<Wb, Grp(1, <<Cls(Digit, 5, 5)>>), Wb>>, FALSE)

\* /[A-ZÀ-Ü]{3,}\s*[-,]\s*[A-ZÀ-Ü]{3,}/i
CITY_COUNTRY ==
  Regex(<<Cls(LetterCI, 3, INF), Sp0, Cls({"-", ","}, 1, 1), Sp0, Cls(LetterCI, 3, INF)>>, TRUE)

looksLikeAddress(line) ==
  /\ Len(trim(line)) >= 5 /\ Len(trim(line)) <= 100
  /\ ~isDocumentLine(toLowerCase(line))
  /\ \/ findCity(line) # None
     \/ findCountry(line) # None
     \/ \E keyword \in streetKeywords : includes(toLowerCase(line), keyword)
     \/ Test(POSTAL_CODE, trim(line))
     \/ Test(CITY_COUNTRY, trim(line))

(***************************************************************************)
(* ContactExtractor: the five address strategies and their cascade.  The   *)
(* header is kept as its sequence of lines; the strategies that match a    *)
(* pattern against the whole header see the lines joined by newlines.      *)
(***************************************************************************)
\* extractHeaderZone: the lines before the first table cue.
RECURSIVE HeaderLines(_, _, _)
HeaderLines(lines, i, li) ==
  IF i > Len(lines) THEN [lines |-> <<>>, li |-> li]
  ELSE Let([line \in {trim(lines[i])} |->
         IF Test(EAN_FULL, line) THEN [lines |-> <<>>, li |-> li]
         ELSE Let([a \in {IF Test(REF_DASH, line) THEN TestG(AMOUNT_PATTERN, line, li)
                          ELSE [ok |-> FALSE, li |-> li]} |->
                IF a.ok \/ Test(TABLE_HEADER, line) THEN [lines |-> <<>>, li |-> a.li]
                ELSE Let([rest \in {HeaderLines(lines, i + 1, a.li)} |->
                       [lines |-> <<lines[i]>> \o rest.lines, li |-> rest.li]])])])

extractHeaderZone(lines, li) == HeaderLines(lines, 1, li)

emptyAddressResult ==
  [value |-> None, confidence |-> Zero, sourceText |-> None, matchedPattern |-> None,
   street |-> None, streetLine2 |-> None, city |-> None, country |-> None, postalCode |-> None]

getCountryName(code) ==
  IF code = None THEN None
  ELSE Some(CASE Val(code) = "MA" -> "Maroc"
              [] Val(code) = "FR" -> "France"
              [] Val(code) = "BE" -> "Belgique"
              [] Val(code) = "ES" -> "Espagne"
              [] Val(code) = "CH" -> "Suisse"
              [] Val(code) = "DE" -> "Allemagne"
              [] Val(code) = "IT" -> "Italie"
              [] OTHER -> Val(code))

\* cityInfo?.city and cityInfo?.country
CityName(cityInfo) == IF cityInfo = None THEN None ELSE Some(Val(cityInfo).city)

CityCountry(cityInfo) == IF cityInfo = None THEN None ELSE Some(Val(cityInfo).country)

extractPostalCode(t) ==
  Let([m \in {Exec(POSTAL_CODE, t, 1)} |-> IF m.ok THEN Some(Cap(t, m, 1)) ELSE None])

\* [:\s]+
ColonsSpaces == Cls(WS \cup {":"}, 1, INF)

cleanAddress(address) ==
  trim(ReplaceAll(Regex(<<ColonsSpaces, Eol>>, FALSE),
         ReplaceAll(Regex(<<Bol, ColonsSpaces>>, FALSE),
           ReplaceAll(Regex(<<Sp>>, FALSE), address, Const(" ")), Const("")), Const("")))

\* The part is kept unless it holds the city or the country name or is a postal code.
KeptPart(part, cityName, countryName) ==
  /\ cityName = None \/ ~includes(toLowerCase(part), Val(cityName))
  /\ countryName = None \/ ~includes(toLowerCase(part), Val(countryName))
  /\ ~Test(Regex(<<Bol, Cls(Digit, 4, 5), Eol>>, FALSE), trim(part))

parseAddressComponents(address) ==
  LET cityInfo == findCity(address)
      countryInfo == findCountry(address)
      country == IF countryInfo # None THEN Some(Val(countryInfo).country)
                 ELSE getCountryName(CityCountry(cityInfo))
      cityName == IF cityInfo = None THEN None ELSE Some(toLowerCase(Val(cityInfo).city))
      countryName == IF country = None THEN None ELSE Some(toLowerCase(Val(country)))
      parts == SelectSeq(MapSeq(Split(Regex(<<Cls({",", "\n"}, 1, 1)>>, FALSE), address), trim),
                         LAMBDA p : p # "")
      dispatched == dispatchAddressLines(SelectSeq(parts, LAMBDA p : KeptPart(p, cityName, countryName)))
  IN [street |-> dispatched.street, streetLine2 |-> dispatched.streetLine2,
      city |-> CityName(cityInfo), country |-> country, postalCode |-> extractPostalCode(address)]

\* (?=\n.*?(?:...)|$) under the s flag
BeforeLabel(labels) ==
  Ahead(<<Alt(<< <<Lit("\n"), Lazy(DotAll(0, INF)), labels>>, <<Eol>> >>)>>)

\* /adresse\s*[:\s]+(.+?)(?=\n.*?(?:tél|tel|ice|i\.?f|email|@)|$)/is
ADDRESS_LABELED ==
  Regex(<<Lit("adresse"), Sp0, ColonsSpaces, Grp(1, <<Lazy(DotAll(1, INF))>>),
          BeforeLabel(Alt(<< <<Lit("tél")>>, <<Lit("tel")>>, <<Lit("ice")>>,
                             <<Lit("i"), Dot01, Lit("f")>>, <<Lit("email")>>, <<Lit("@")>> >>))>>, TRUE)

\* /siège\s*(?:social)?\s*[:\s]+(.+?)(?=\n.*?(?:tél|tel|ice)|$)/is
ADDRESS_SIEGE ==
  Regex(<<Lit("siège"), Sp0, Opt(<<Lit("social")>>), Sp0, ColonsSpaces, Grp(1, <<Lazy(DotAll(1, INF))>>),
          BeforeLabel(OneOf(<<"tél", "tel", "ice">>))>>, TRUE)

\* /domicilié\s*[àa]?\s*[:\s]*(.+?)(?=\n.*?(?:tél|tel)|$)/is
ADDRESS_DOMICILIE ==
  Regex(<<Lit("domicilié"), Sp0, Cls({"à", "a"}, 0, 1), Sp0, Cls(WS \cup {":"}, 0, INF),
          Grp(1, <<Lazy(DotAll(1, INF))>>), BeforeLabel(OneOf(<<"tél", "tel">>))>>, TRUE)

\* The address patterns of the French locale:
\* /adresse[:\s]*(.+?)(?:\n|tél|tel|phone|fax|ice|if|rc|email)/i
\* /(?:siège\s*social|domicilié)[:\s]*(.+?)(?:\n|tél|tel)/i
LocaleAddress ==
  << Regex(<<Lit("adresse"), Cls(WS \cup {":"}, 0, INF), Grp(1, <<Lazy(Dot(1, INF))>>),
             OneOf(<<"\n", "tél", "tel", "phone", "fax", "ice", "if", "rc", "email">>)>>, TRUE),
     Regex(<<Alt(<< <<Lit("siège"), Sp0, Lit("social")>>, <<Lit("domicilié")>> >>),
             Cls(WS \cup {":"}, 0, INF), Grp(1, <<Lazy(Dot(1, INF))>>),
             OneOf(<<"\n", "tél", "tel">>)>>, TRUE) >>

LabeledPatterns ==
  << [name |-> "ADDRESS_LABELED", re |-> ADDRESS_LABELED],
     [name |-> "ADDRESS_SIEGE", re |-> ADDRESS_SIEGE],
     [name |-> "ADDRESS_DOMICILIE", re |-> ADDRESS_DOMICILIE],
     [name |-> "locale.supplier.address[0]", re |-> LocaleAddress[1]],
     [name |-> "locale.supplier.address[1]", re |-> LocaleAddress[2]] >>

\* Strategy 1: the address after an explicit label; the pattern is named, not printed.
RECURSIVE LabeledFrom(_, _)
LabeledFrom(t, i) ==
  IF i > Len(LabeledPatterns) THEN emptyAddressResult
  ELSE Let([m \in {Exec(LabeledPatterns[i].re, t, 1)} |->
         IF m.ok /\ Cap(t, m, 1) # ""
         THEN Let([address \in {cleanAddress(Cap(t, m, 1))} |->
                Let([components \in {parseAddressComponents(address)} |->
                  [value |-> Some(address), confidence |-> Pct(85), sourceText |-> Some(Matched(t, m)),
                   matchedPattern |-> Some(LabeledPatterns[i].name),
                   street |-> components.street, streetLine2 |-> components.streetLine2,
                   city |-> components.city, country |-> components.country,
                   postalCode |-> components.postalCode]])])
         ELSE LabeledFrom(t, i + 1)])

extractLabeledAddress(lines) == LabeledFrom(join(lines, "\n"), 1)

\* /facture|n[°o]\s*:|bl\s*n|bc\s*n|devis|avoir|proforma/i
DocumentIdentifier ==
  Regex(<<Alt(<< <<Lit("facture")>>, <<Lit("n"), Cls({"°", "o"}, 1, 1), Sp0, Lit(":")>>,
                 <<Lit("bl"), Sp0, Lit("n")>>, <<Lit("bc"), Sp0, Lit("n")>>,
                 <<Lit("devis")>>, <<Lit("avoir")>>, <<Lit("proforma")>> >>)>>, TRUE)

\* /^(date|ice|i\.?f|r\.?c|tél|tel|fax|email|client|code)/i
NotAnAddress ==
  Regex(<<Bol, Alt(<< <<Lit("date")>>, <<Lit("ice")>>, <<Lit("i"), Dot01, Lit("f")>>,
                      <<Lit("r"), Dot01, Lit("c")>>, <<Lit("tél")>>, <<Lit("tel")>>, <<Lit("fax")>>,
                      <<Lit("email")>>, <<Lit("client")>>, <<Lit("code")>> >>)>>, TRUE)

\* /^[A-ZÀ-Ü][A-Za-zÀ-ü\s\d,.\-°']{2,}$/
LocationName ==
  Regex(<<Bol, Cls(AZ \cup AccentUpper, 1, 1),
          Cls(AZaz \cup AccentUpper \cup AccentLower \cup {"Ý", "Þ", "ß", "÷"} \cup WS \cup Digit
              \cup {",", ".", "-", "°", "'"}, 2, INF), Eol>>, FALSE)

looksLikeStreetLine(line) ==
  LET trimmed == trim(line)
      lowerLine == toLowerCase(trimmed)
  IN /\ Len(trimmed) >= 3 /\ Len(trimmed) <= 80
     /\ ~isStopLine(line)
     /\ ~Test(DocumentIdentifier, lowerLine)
     /\ ~Test(NotAnAddress, lowerLine)
     \* /^[\d\s.,\/\-]+$/
     /\ ~Test(Regex(<<Bol, Cls(Digit \cup WS \cup {".", ",", "/", "-"}, 1, INF), Eol>>, FALSE), trimmed)
     /\ \/ looksLikeAddress(line)
        \/ Test(LOCATION_KEYWORDS, trimmed)
        \/ Test(LocationName, trimmed) /\ Len(SplitWords(trimmed)) >= 2
        \/ Test(StartsWithNumber, trimmed)

\* \s*(?:n[°o]?\s*)?:?\s*\d+\s+(.+)
NumberThenText ==
  <<Sp0, Opt(NumeroMark \o <<Sp0>>), Cls({":"}, 0, 1), Sp0, Cls(Digit, 1, INF), Sp, Grp(1, <<Dot(1, INF)>>)>>

\* /(?:facture|devis|avoir|proforma)\s*(?:n[°o]?\s*)?:?\s*\d+\s+(.+)/i
\* /(?:bl|bc|br)\s*(?:n[°o]?\s*)?:?\s*\d+\s+(.+)/i
\* /n[°o]\s*:?\s*\d+\s+(.+)/i
DocumentPatterns ==
  << Regex(<<OneOf(<<"facture", "devis", "avoir", "proforma">>)>> \o NumberThenText, TRUE),
     Regex(<<OneOf(<<"bl", "bc", "br">>)>> \o NumberThenText, TRUE),
     Regex(<<Lit("n"), Cls({"°", "o"}, 1, 1), Sp0, Cls({":"}, 0, 1), Sp0, Cls(Digit, 1, INF), Sp,
             Grp(1, <<Dot(1, INF)>>)>>, TRUE) >>

RECURSIVE AddressPartFrom(_, _)
AddressPartFrom(line, i) ==
  IF i > Len(DocumentPatterns) THEN None
  ELSE Let([m \in {Exec(DocumentPatterns[i], line, 1)} |->
         IF /\ m.ok
            /\ Len(trim(Cap(line, m, 1))) >= 5
            /\ \/ isLocation(trim(Cap(line, m, 1)))
               \/ looksLikeAddress(trim(Cap(line, m, 1)))
               \/ looksLikeStreetLine(trim(Cap(line, m, 1)))
         THEN Some(trim(Cap(line, m, 1)))
         ELSE AddressPartFrom(line, i + 1)])

extractAddressPartFromDocumentLine(line) == AddressPartFrom(line, 1)

\* The index (from 0) of the first line that holds the supplier name, -1 when none does.
RECURSIVE NameIndex(_, _, _)
NameIndex(lines, name, i) ==
  IF i >= Len(lines) THEN -1
  ELSE IF includes(toLowerCase(lines[i + 1]), name) THEN i
  ELSE NameIndex(lines, name, i + 1)

\* The address lines among the lines i..stop - 1, up to the first stop line.
RECURSIVE CollectAfter(_, _, _)
CollectAfter(lines, i, stop) ==
  IF i >= stop THEN <<>>
  ELSE Let([line \in {trim(lines[i + 1])} |->
         IF line = "" THEN CollectAfter(lines, i + 1, stop)
         ELSE IF isStopLine(line) THEN <<>>
         ELSE IF looksLikeAddress(line) \/ looksLikeStreetLine(line)
              THEN <<line>> \o CollectAfter(lines, i + 1, stop)
         ELSE CollectAfter(lines, i + 1, stop)])

\* collectedLines.findIndex(line => findCity(line)), from 1; 0 when there is none
RECURSIVE CityLineIndex(_, _)
CityLineIndex(collected, i) ==
  IF i > Len(collected) THEN 0
  ELSE IF findCity(collected[i]) # None THEN i
  ELSE CityLineIndex(collected, i + 1)

PositionalResult(collectedLines) ==
  Let([k \in {CityLineIndex(collectedLines, 1)} |->
    Let([streetLocationLines \in {SubSeq(collectedLines, 1, (IF k > 0 THEN k ELSE Len(collectedLines)) - 1)} |->
      Let([cityLine \in {collectedLines[IF k > 0 THEN k ELSE Len(collectedLines)]} |->
        Let([d \in {dispatchAddressLines(streetLocationLines)} |->
          [value |-> Some(join(collectedLines, ", ")),
           confidence |-> RAdd(Tenth(6), RMul(Whole(Len(collectedLines)), Tenth(1))),
           sourceText |-> Some(join(collectedLines, "\n")),
           matchedPattern |-> Some("positional"),
           street |-> IF d.street # None THEN d.street
                      ELSE IF streetLocationLines # <<>> THEN Some(streetLocationLines[1]) ELSE None,
           streetLine2 |-> d.streetLine2,
           city |-> CityName(findCity(cityLine)),
           country |-> getCountryName(CityCountry(findCity(cityLine))),
           postalCode |-> extractPostalCode(cityLine)]])])])])

\* Strategy 2: the address lines that follow the supplier name.
extractPositionalAddress(lines, supplierName) ==
  Let([nameIndex \in {NameIndex(lines, toLowerCase(supplierName), 0)} |->
    IF nameIndex = -1 THEN emptyAddressResult
    ELSE Let([collectedLines \in {CollectAfter(lines, nameIndex + 1, Min(nameIndex + 6, Len(lines)))} |->
           IF collectedLines = <<>> THEN emptyAddressResult
           ELSE PositionalResult(collectedLines)])])

\* The street and location lines above a city line: the lines j, j - 1, .. low,
\* top to bottom, up to the first line that is not one.
RECURSIVE CollectAbove(_, _, _)
CollectAbove(lines, j, low) ==
  IF j < low THEN <<>>
  ELSE Let([prevLine \in {trim(lines[j + 1])} |->
         IF prevLine = "" THEN CollectAbove(lines, j - 1, low)
         ELSE IF isStopLine(prevLine) THEN extractAddressPartFromDocumentLine(prevLine)
         ELSE IF looksLikeStreetLine(prevLine) THEN CollectAbove(lines, j - 1, low) \o <<prevLine>>
         ELSE extractAddressPartFromDocumentLine(prevLine)])

\* Strategy 3: the first address line that names a city, with the lines above it.
RECURSIVE ByCityFrom(_, _)
ByCityFrom(lines, i) ==
  IF i >= Len(lines) THEN emptyAddressResult
  ELSE Let([line \in {trim(lines[i + 1])} |->
         IF line = "" \/ isStopLine(line) \/ ~looksLikeAddress(line) \/ findCity(line) = None
         THEN ByCityFrom(lines, i + 1)
         ELSE Let([d \in {dispatchAddressLines(CollectAbove(lines, i - 1, Max(0, i - 4)))} |->
                [value |-> Some(join(d.street \o d.streetLine2 \o <<line>>, ", ")),
                 confidence |-> Val(findCity(line)).confidence,
                 sourceText |-> Some(join(d.street \o d.streetLine2 \o <<line>>, "\n")),
                 matchedPattern |-> Some("city-detection"),
                 street |-> d.street,
                 streetLine2 |-> d.streetLine2,
                 city |-> CityName(findCity(line)),
                 country |-> getCountryName(CityCountry(findCity(line))),
                 postalCode |-> extractPostalCode(line)]])])

extractAddressByCity(lines) == ByCityFrom(lines, 0)

\* Strategy 4: the address appended to a document number, with a city on the next line or in it.
RECURSIVE FromDocumentLines(_, _)
FromDocumentLines(lines, i) ==
  IF i >= Len(lines) THEN emptyAddressResult
  ELSE Let([addressPart \in {IF trim(lines[i + 1]) = "" THEN None
                             ELSE extractAddressPartFromDocumentLine(trim(lines[i + 1]))} |->
         IF addressPart = None THEN FromDocumentLines(lines, i + 1)
         ELSE Let([nextLine \in {IF i + 1 < Len(lines) THEN trim(lines[i + 2]) ELSE ""} |->
                Let([cityInfo \in {IF findCity(nextLine) # None THEN findCity(nextLine)
                                   ELSE findCity(Val(addressPart))} |->
                  IF cityInfo = None THEN FromDocumentLines(lines, i + 1)
                  ELSE Let([addressLines \in {IF nextLine # "" /\ looksLikeAddress(nextLine)
                                              THEN <<Val(addressPart), nextLine>>
                                              ELSE <<Val(addressPart)>>} |->
                         [value |-> Some(join(addressLines, ", ")),
                          confidence |-> Tenth(7),
                          sourceText |-> Some(join(addressLines, "\n")),
                          matchedPattern |-> Some("document-line-extraction"),
                          street |-> dispatchAddressLines(<<Val(addressPart)>>).street,
                          streetLine2 |-> dispatchAddressLines(<<Val(addressPart)>>).streetLine2,
                          city |-> CityName(cityInfo),
                          country |-> getCountryName(CityCountry(cityInfo)),
                          postalCode |-> extractPostalCode(IF nextLine # "" THEN nextLine
                                                           ELSE Val(addressPart))]])])])])

extractAddressFromDocumentLines(lines) == FromDocumentLines(lines, 0)

\* n°\s*(?![:\s]*\d) and numéro\s*(?![:\s]*\d)
NotANumber(word) == <<Lit(word), Sp0, NotAhead(<<Cls(WS \cup {":"}, 0, INF), Cls(Digit, 1, 1)>>)>>

\* /(?:rue|avenue|av\.|av|boulevard|bd|blvd|allée|impasse|passage|place|chemin|route|voie|lot|
\*     lotissement|résidence|immeuble|imm|quartier|zone|zi|galerie|centre|angle|
\*     n°\s*(?![:\s]*\d)|numéro\s*(?![:\s]*\d))\s+[^\n]{5,60}/i
STREET_KEYWORDS ==
  Regex(<<Alt([i \in 1..25 |->
                 IF i = 24 THEN NotANumber("n°")
                 ELSE IF i = 25 THEN NotANumber("numéro")
                 ELSE <<Lit(<<"rue", "avenue", "av.", "av", "boulevard", "bd", "blvd", "allée",
                              "impasse", "passage", "place", "chemin", "route", "voie", "lot",
                              "lotissement", "résidence", "immeuble", "imm", "quartier", "zone",
                              "zi", "galerie", "centre", "angle">>[i])>>]),
          Sp, NotCls({"\n"}, 5, 60)>>, TRUE)

\* Strategy 5: the first street keyword and the text that follows it on its line.
extractAddressByKeywords(lines) ==
  Let([t \in {join(lines, "\n")} |->
    Let([m \in {Exec(STREET_KEYWORDS, t, 1)} |->
      IF ~m.ok \/ ~looksLikeAddress(trim(Matched(t, m))) THEN emptyAddressResult
      ELSE Let([components \in {parseAddressComponents(trim(Matched(t, m)))} |->
             [value |-> Some(trim(Matched(t, m))), confidence |-> Tenth(5),
              sourceText |-> Some(Matched(t, m)), matchedPattern |-> Some("street-keywords"),
              street |-> components.street, streetLine2 |-> components.streetLine2,
              city |-> components.city, country |-> components.country,
              postalCode |-> components.postalCode]])])])

\* The result when its confidence reaches the floor, otherwise the next strategy's.
OrNextStrategy(result, floor, next) == IF RLe(floor, result.confidence) THEN result ELSE next

\* The cascade with the street-keyword strategy before the city-anchored one
CascadeKeywordsFirst(header, supplierName) ==
  OrNextStrategy(extractLabeledAddress(header), Tenth(7),
    OrNextStrategy(IF supplierName # None /\ Val(supplierName) # ""
                   THEN extractPositionalAddress(header, Val(supplierName))
                   ELSE emptyAddressResult, Tenth(5),
      OrNextStrategy(extractAddressByKeywords(header), Tenth(4),
        OrNextStrategy(extractAddressByCity(header), Tenth(5),
          OrNextStrategy(extractAddressFromDocumentLines(header), Tenth(5),
            emptyAddressResult)))))

\* The cascade of extractAddress over the header lines.
Cascade(header, supplierName) ==
  OrNextStrategy(extractLabeledAddress(header), Tenth(7),
    OrNextStrategy(IF supplierName # None /\ Val(supplierName) # ""
                   THEN extractPositionalAddress(header, Val(supplierName))
                   ELSE emptyAddressResult, Tenth(5),
      OrNextStrategy(extractAddressByCity(header), Tenth(5),
        OrNextStrategy(extractAddressFromDocumentLines(header), Tenth(5),
          OrNextStrategy(extractAddressByKeywords(header), Tenth(4),
            emptyAddressResult)))))

extractAddress(lines, supplierName, li) ==
  Let([h \in {extractHeaderZone(lines, li)} |->
    [result |-> Cascade(h.lines, supplierName), li |-> h.li]])

(***************************************************************************)
(* EntityZoneDetector: the vendor and customer blocks of the header and    *)
(* the vendor block of the footer.  The label patterns are written with    *)
(* the colon ":" only and the currencies dh and mad; the documents hold no *)
(* full-width colon and no euro sign.                                      *)
(***************************************************************************)
Colon == Cls({":"}, 1, 1)

Colon01 == Cls({":"}, 0, 1)

\* factur[ée]\s*[àa], livr[ée]\s*[àa]
ParticipleTo(stem) == <<Lit(stem), Cls({"é", "e"}, 1, 1), Sp0, Cls({"à", "a"}, 1, 1)>>

CUSTOMER_LABELS ==
  <<Regex(<<Bol, Alt(<<ParticipleTo("factur"), <<Lit("client")>>, <<Lit("destinataire")>>,
                       <<Lit("acheteur")>> >>), Sp0, Colon>>, TRUE),
    Regex(<<Bol, Alt(<<ParticipleTo("livr"),
                       <<Lit("adresse"), Sp0, Lit("de"), Sp0, Lit("livraison")>> >>),
            Sp0, Colon>>, TRUE),
    Regex(<<Bol, Alt(<< <<Lit("pour")>>,
                        <<Lit("à"), Sp0, Lit("l"), Cls({"'"}, 1, 1), Lit("attention"), Sp0, Lit("de")>>,
                        <<Lit("att"), Cls({"."}, 0, 1)>> >>),
            Sp0, Colon01>>, TRUE),
    Regex(<<Bol, Alt(<< <<Lit("bill"), Opt(<<Lit("ed")>>), Sp0, Lit("to")>>,
                        <<Lit("ship"), Opt(<<Lit("ped")>>), Sp0, Lit("to")>>,
                        <<Lit("customer")>>, <<Lit("buyer")>> >>),
            Sp0, Colon>>, TRUE),
    Regex(<<Bol, Alt(<< <<Lit("sold"), Sp0, Lit("to")>>,
                        <<Lit("deliver"), Opt(<<Lit("ed")>>), Sp0, Lit("to")>> >>),
            Sp0, Colon>>, TRUE)>>

VENDOR_LABELS ==
  <<Regex(<<Bol, Alt(<< <<Lit("fournisseur")>>, <<Lit("émetteur")>>, <<Lit("vendeur")>>,
                        <<Lit("notre"), Sp0, Lit("société")>> >>), Sp0, Colon>>, TRUE),
    Regex(<<Bol, Alt(<< <<Lit("expéditeur")>>,
                        <<Lit("de"), Sp0, Lit("la"), Sp0, Lit("part"), Sp0, Lit("de")>> >>),
            Sp0, Colon>>, TRUE),
    Regex(<<Bol, OneOf(<<"vendor", "supplier", "seller", "from">>), Sp0, Colon>>, TRUE)>>

\* i\.?f\.? and r\.?c\.?
Dotted(a, b) == <<Lit(a), Cls({"."}, 0, 1), Lit(b), Cls({"."}, 0, 1)>>

\* keyword \s* [:]? \s* (\d{min,max})
NumberAfter(keyword, min, max) ==
  Regex(keyword \o <<Sp0, Colon01, Sp0, Grp(1, <<Cls(Digit, min, max)>>)>>, TRUE)

LegalForms == <<"sarl", "sa", "sas", "sasu", "eurl", "ei", "snc">>

FOOTER_VENDOR_PATTERNS ==
  [ice |-> NumberAfter(<<Lit("ice")>>, 15, 15),
   fiscalId |-> NumberAfter(Dotted("i", "f"), 7, 8),
   tradeRegister |-> NumberAfter(Dotted("r", "c"), 5, 6),
   cnss |-> NumberAfter(<<Lit("cnss")>>, 7, 10),
   patente |-> NumberAfter(<<Lit("patente")>>, 7, 10),
   bank |-> Regex(<<OneOf(<<"banque", "bank">>), Sp0, Colon01, Sp0,
                    Grp(1, <<Lazy(Cls(LetterCI \cup Chars("ÝÞßýþÿ÷") \cup WS, 1, INF))>>),
                    Ahead(<<Alt(<< <<Sp0, Cls({"-", "|"}, 1, 1)>>, <<Lit("\n")>>, <<Eol>> >>)>>)>>,
                  TRUE),
   rib |-> Regex(<<OneOf(<<"rib", "iban">>), Sp0, Colon01, Sp0,
                   Grp(1, <<Cls(Digit \cup WS, 20, 35)>>)>>, TRUE),
   capitalSocial |-> Regex(<<Lit("capital"), Sp0, Opt(<<Lit("social"), Sp0>>),
                             Opt(<<Lit("de"), Sp0>>), Cls(WS \cup {":"}, 0, INF),
                             Grp(1, <<Cls(Digit \cup WS \cup {".", ","}, 1, INF)>>), Sp0,
                             OneOf(<<"dh", "mad">>)>>, TRUE),
   legalForm |-> Regex(<<BolM, Grp(1, <<OneOf(LegalForms)>>), Sp,
                         Opt(<<Lit("au"), Sp>>), Lit("capital")>>, TRUE)]

FooterFields ==
  <<"ice", "fiscalId", "tradeRegister", "cnss", "patente", "bank", "rib", "capitalSocial",
    "legalForm">>

\* match ? match[1].trim() : null
extractField(footerText, pattern) ==
  Let([m \in {Exec(pattern, footerText, 1)} |->
    IF m.ok THEN Some(trim(Cap(footerText, m, 1))) ELSE None])

\* Math.min(0.5 + fieldsFound * 0.1, 0.95)
FooterConfidence(fieldsFound) ==
  Let([c \in {RAdd(Tenth(5), RMul(Whole(fieldsFound), Tenth(1)))} |->
    IF RLt(Pct(95), c) THEN Pct(95) ELSE c])

extractVendorFromFooter(footerText) ==
  Let([found \in {[f \in {FooterFields[k] : k \in 1..Len(FooterFields)} |->
                     extractField(footerText, FOOTER_VENDOR_PATTERNS[f])]} |->
    [fields |-> found, rawText |-> footerText,
     confidence |-> FooterConfidence(Cardinality({f \in DOMAIN found : Truthy(found[f])}))]])

\* text.split('\n')
splitLines(t) == Split(Regex(<<Lit("\n")>>, FALSE), t)

\* The stop lines of a labeled block
isBlockStopLine(line) ==
  LET lower == toLowerCase(line)
  IN \/ Test(Regex(<<Bol, OneOf(<<"facture", "devis", "avoir", "proforma", "bl", "bc">>), Sp0,
                     Lit("n"), Cls({"°", "o"}, 0, 1), Sp0, Colon01>>, TRUE), line)
     \/ Test(Regex(<<Bol, Lit("date"), Sp0, Colon01>>, TRUE), line)
     \/ Test(Regex(<<Bol, Alt(<< <<Lit("ice")>>, Dotted("i", "f"), Dotted("r", "c"),
                                 <<Lit("cnss")>>, <<Lit("patente")>> >>), Sp0, Colon01>>, TRUE), lower)
     \/ Test(Regex(<<Bol, OneOf(<<"tél", "tel", "phone", "fax", "email", "@">>)>>, TRUE), lower)
     \/ Test(Regex(<<Lit("code"), Sp0, Lit("client")>>, TRUE), lower)

IsLabel(labels, line) == \E k \in 1..Len(labels) : Test(labels[k], line)

\* The lines collected after the label line, up to five of them
RECURSIVE CollectBlock(_, _, _)
CollectBlock(lines, i, stop) ==
  IF i >= stop THEN <<>>
  ELSE Let([line \in {trim(lines[i + 1])} |->
         IF line = "" THEN CollectBlock(lines, i + 1, stop)
         ELSE IF isBlockStopLine(line) \/ IsLabel(CUSTOMER_LABELS, line) \/ IsLabel(VENDOR_LABELS, line)
         THEN <<>>
         ELSE <<line>> \o CollectBlock(lines, i + 1, stop)])

extractBlockFromLabel(lines, startIndex, labelPattern) ==
  Let([firstLine \in {lines[startIndex + 1]} |->
  Let([labelMatch \in {Exec(labelPattern, firstLine, 1)} |->
  Let([afterLabel \in {IF labelMatch.ok
                       THEN trim(substring(firstLine, Len(Matched(firstLine, labelMatch))))
                       ELSE ""} |->
  Let([collectedLines \in {(IF afterLabel # "" THEN <<afterLabel>> ELSE <<>>)
                             \o CollectBlock(lines, startIndex + 1,
                                             Min(startIndex + 6, Len(lines)))} |->
    IF Len(collectedLines) = 0 THEN None
    ELSE Some([text |-> join(collectedLines, "\n"), lines |-> collectedLines,
               startLine |-> startIndex, endLine |-> startIndex + Len(collectedLines)])])])])])

\* The first label of `labels` the line matches, 0 when there is none
FirstLabel(labels, line) ==
  IF IsLabel(labels, line)
  THEN CHOOSE k \in 1..Len(labels) :
         Test(labels[k], line) /\ \A j \in 1..(k - 1) : ~Test(labels[j], line)
  ELSE 0

\* The block a line labels for a role, or the block the role had before
LabeledBlock(lines, i, labels, confidence, before) ==
  Let([k \in {FirstLabel(labels, lines[i + 1])} |->
    IF k = 0 THEN before
    ELSE Let([block \in {extractBlockFromLabel(lines, i, labels[k])} |->
           IF block = None THEN before
           ELSE Some([text |-> Val(block).text, lines |-> Val(block).lines,
                      startLine |-> Val(block).startLine, endLine |-> Val(block).endLine,
                      source |-> "labeled", confidence |-> confidence, matchedLabel |-> Some(k)])])])

RECURSIVE LabeledFromLine(_, _, _)
LabeledFromLine(lines, i, found) ==
  IF i >= Len(lines) THEN found
  ELSE LabeledFromLine(lines, i + 1,
         [vendor |-> LabeledBlock(lines, i, VENDOR_LABELS, Pct(90), found.vendor),
          customer |-> LabeledBlock(lines, i, CUSTOMER_LABELS, Pct(95), found.customer),
          vendorFooter |-> None])

findLabeledBlocks(headerText) ==
  LabeledFromLine(splitLines(headerText), 0, [vendor |-> None, customer |-> None, vendorFooter |-> None])

\* /^(.{10,}?)(?:\s{4,}|\t)(.{10,})$/
DualColumn ==
  Regex(<<Bol, Grp(1, <<Lazy(Dot(10, INF))>>),
          Alt(<< <<Cls(WS, 4, INF)>>, <<Lit("\t")>> >>), Grp(2, <<Dot(10, INF)>>), Eol>>, FALSE)

\* The left and right columns of the header lines
RECURSIVE Columns(_, _)
Columns(lines, i) ==
  IF i > Len(lines) THEN [left |-> <<>>, right |-> <<>>]
  ELSE Let([rest \in {Columns(lines, i + 1)} |->
         IF trim(lines[i]) = "" THEN rest
         ELSE Let([dualMatch \in {Exec(DualColumn, lines[i], 1)} |->
                IF dualMatch.ok
                THEN [left |-> <<trim(Cap(lines[i], dualMatch, 1))>> \o rest.left,
                      right |-> <<trim(Cap(lines[i], dualMatch, 2))>> \o rest.right]
                ELSE [left |-> <<trim(lines[i])>> \o rest.left, right |-> rest.right]])])

hasVendorIndicators(leftText) ==
  \/ Test(Regex(<<Lit("ice"), Sp0, Colon01, Sp0, Cls(Digit, 15, 15)>>, TRUE), leftText)
  \/ Test(Regex(<<OneOf(<<"sarl", "sa", "sas", "sasu", "eurl">>), Cls(WS, 1, 1)>>, TRUE), leftText)
  \/ Test(Regex(Dotted("i", "f") \o <<Sp0, Colon>>, TRUE), leftText)

PositionalBlock(columnLines, source, confidence) ==
  Some([text |-> join(columnLines, "\n"), lines |-> columnLines, source |-> source,
        startLine |-> 0, endLine |-> Len(columnLines), confidence |-> confidence,
        matchedLabel |-> None])

\* The layout analysis that lets a column replace a labeled block
analyzeColumnsFirst(headerText, labeledResult) ==
  Let([columns \in {Columns(splitLines(headerText), 1)} |->
    [vendor |->
       IF Len(columns.left) > 0
       THEN PositionalBlock(columns.left, "header_left", Pct(70))
       ELSE labeledResult.vendor,
     customer |->
       IF Len(columns.right) > 0
       THEN PositionalBlock(columns.right, "header_right", Pct(65))
       ELSE labeledResult.customer,
     vendorFooter |-> labeledResult.vendorFooter]])

analyzePositionalLayout(headerText, labeledResult) ==
  IF labeledResult.vendor # None /\ labeledResult.customer # None THEN labeledResult
  ELSE Let([columns \in {Columns(splitLines(headerText), 1)} |->
         [vendor |->
            IF labeledResult.vendor = None /\ Len(columns.left) > 0
            THEN Let([indicators \in {hasVendorIndicators(join(columns.left, "\n"))} |->
                   IF indicators \/ Len(columns.left) >= 2
                   THEN PositionalBlock(columns.left, "header_left",
                                        IF indicators THEN Pct(85) ELSE Pct(70))
                   ELSE None])
            ELSE labeledResult.vendor,
          customer |->
            IF labeledResult.customer = None /\ Len(columns.right) > 0
            THEN PositionalBlock(columns.right, "header_right", Pct(65))
            ELSE labeledResult.customer,
          vendorFooter |-> labeledResult.vendorFooter]])

extractVendorFooterBlock(footerText) ==
  Let([info \in {extractVendorFromFooter(footerText)} |->
    IF RLt(info.confidence, Tenth(5)) THEN None
    ELSE Some([text |-> info.rawText,
               lines |-> SelectSeq(splitLines(info.rawText), LAMBDA l : trim(l) # ""),
               source |-> "footer", startLine |-> 0, endLine |-> 0,
               confidence |-> info.confidence, matchedLabel |-> None])])

\* ZoneDetector.extractFooterZone: the lines from footerStart on
extractFooterZone(lines, li) ==
  Let([zones \in {detectZones(lines, li)} |->
    [text |-> join(SubSeq(lines, zones.footerStart + 1, Len(lines)), "\n"), li |-> zones.li]])

detectEntityBlocks(lines, li) ==
  Let([header \in {extractHeaderZone(lines, li)} |->
  Let([footer \in {extractFooterZone(lines, header.li)} |->
  Let([headerText \in {join(header.lines, "\n")} |->
  Let([labeledResult \in {findLabeledBlocks(headerText)} |->
  Let([positionalResult \in {analyzePositionalLayout(headerText, labeledResult)} |->
    [vendor |-> positionalResult.vendor, customer |-> positionalResult.customer,
     vendorFooter |-> extractVendorFooterBlock(footer.text), li |-> footer.li]])])])])])

(***************************************************************************)
(* The program as a state machine.  One process holds the pattern table,  *)
(* whose only mutable part is the lastIndex of the global AMOUNT_PATTERN,  *)
(* and serves calls one after the other; `op`, `input` and `output`       *)
(* describe the last call served.                                          *)
(***************************************************************************)
VARIABLES text, lastIndex, op, input, output

vars == <<text, lastIndex, op, input, output>>

defaultVatRate == Norm(1, 5)

MaxDocLines == 2

\* Lines of OCR text the documents are cut from.
SampleLines ==
  <<"12345678 SAFILO GREY 1 100.00 15% 85.00",
    "short",
    "Service 2 10.00 20.00",
    "12345678 Se pe",
    "-SOD.54 1 100.00 15%",
    "AB-123 CARRERA 2 50.00 100.00",
    "ab = monture 1 50,00",
    "Désignation Qté P.U. Total",
    "pe = ce 0286.5G 1 100,00 15% 85,00",
    "12345678 LUNETTE 2 10.00 10% 0.00",
    "Total HT: 170.00",
    "ABCD monture 0 10.00 15,5% 0.00",
    "monture noire grise",
    "monture noire 0 10.00 0.00",
    "monture 15 % ok",
    "XY12 lens 2 45.00",
    "REF001 MONTURE 2 x 45.00",
    "AB/12 verre 12.50 25.00",
    "- verre 12.50 25.00 fin",
    "- lot 3 Ã 12 promo",
    "monture | | noire 2 45.00",
    "1234567 LUNETTE 2 45.00",
    "1234567890",
    "Désignation Qté P.U. Total">>

\* The scenario of the corrupted-lines test, bare and between a header row and a total line.
BareScenario ==
  <<"197737121563 SAFILO 7A086 54.19 GREY 1 1010.00 15% 858.50",
    "pe = ce 0286.5G.53.18 1 1010,00 15% 858,50",
    "197737121563 SAFILO 7A086 54.19 BLACK 1 1010.00 15% 858.50">>

WrappedScenario ==
  <<"", "Désignation   Qté   P.U.   Remise   Total">> \o BareScenario
    \o <<"Total HT: 2575.50", "">>

\* The runs of n consecutive sample lines.
Slices(n) == {SubSeq(SampleLines, i, i + n - 1) : i \in 1..(Len(SampleLines) - n + 1)}

\* Lines between a column-header row and a total line.
Framed(lines) == <<"Désignation Qté P.U. Total">> \o lines \o <<"Total HT: 170.00">>

\* A document is the sequence of its lines, text.split('\n').
Documents ==
  UNION {Slices(n) : n \in 1..MaxDocLines}
    \cup {Framed(lines) : lines \in Slices(MaxDocLines)}
    \cup {BareScenario, WrappedScenario}

\* One scorer, merger, detector and extractor are constructed and applied, in any
\* order and any number of times, to the text of one document.
Init ==
  /\ text \in Documents
  /\ lastIndex = 0
  /\ op = "none"
  /\ input = <<>>
  /\ output = <<>>

\* ZoneDetector.detectZones(text)
DetectZones ==
  \E z \in {detectZones(text, lastIndex)} :
    /\ lastIndex' = z.li
    /\ op' = "detectZones"
    /\ input' = text
    /\ output' = [headerEnd |-> z.headerEnd, tableStart |-> z.tableStart,
                  tableEnd |-> z.tableEnd, footerStart |-> z.footerStart]
    /\ UNCHANGED text

\* LineScorer.scoreAllLines(lines), with the default configuration
ScoreAllLines ==
  \E r \in {scoreAllLines(text, DEFAULT_NOISE_KEYWORDS, lastIndex)} :
    /\ lastIndex' = r.li
    /\ op' = "scoreAllLines"
    /\ input' = text
    /\ output' = r.v
    /\ UNCHANGED text

\* FragmentMerger.isFragment(line)
IsFragment(line) ==
  \E r \in {isFragment(line, lastIndex)} :
    /\ lastIndex' = r.li
    /\ op' = "isFragment"
    /\ input' = line
    /\ output' = r.v
    /\ UNCHANGED text

\* LineItemExtractor.extractLinesWithStats(text, 0.2)
ExtractLinesWithStats ==
  \E r \in {extractLinesWithStats(text, defaultVatRate, lastIndex)} :
    /\ lastIndex' = r.li
    /\ op' = "extractLinesWithStats"
    /\ input' = text
    /\ output' = [lines |-> r.lines, stats |-> r.stats, candidateLines |-> r.candidateLines]
    /\ UNCHANGED text

CleanOcrText ==
  /\ op' = "cleanOcrText"
  /\ input' = text
  /\ output' = cleanOcrText(text)
  /\ UNCHANGED <<text, lastIndex>>

Next ==
  \/ DetectZones
  \/ ScoreAllLines
  \/ \E i \in 1..Len(text) : IsFragment(text[i])
  \/ ExtractLinesWithStats
  \/ CleanOcrText

Spec == Init /\ [][Next]_vars

(***************************************************************************)
(* Properties of the extraction pipeline, checked under Spec.              *)
(***************************************************************************)
Extracted == op = "extractLinesWithStats"

IsPlaceholder(l) == l.extractionMethod = "detected_only"

\* C1 as stated: extractLinesWithStats returns exactly one line per candidate line,
\* for any number of candidates (none included).
C1_OneLinePerCandidate ==
  Extracted => Len(output.lines) = Len(output.candidateLines)

\* C1, amended: when there is at least one candidate line, extractLinesWithStats
\* returns exactly one line per candidate line; without candidates it returns the
\* lines of the full-text fallback, so never fewer lines than candidates.
C1_OneLinePerCandidateIfAny ==
  Extracted =>
    /\ Len(output.candidateLines) > 0 => Len(output.lines) = Len(output.candidateLines)
    /\ Len(output.lines) >= Len(output.candidateLines)

C1_SeveralCandidates ==
  Extracted /\ Len(output.candidateLines) >= 2 /\ Len(output.lines) >= 2

\* C2: every line returned by extractLinesWithStats has a non-empty rawText, which
\* is the text of the candidate line it was made from, whichever strategy made it,
\* the placeholder with all structured fields null included.
C2_RawTextKept ==
  Extracted =>
    \A k \in 1..Len(output.lines) :
      /\ output.lines[k].rawText # ""
      /\ Len(output.candidateLines) > 0 =>
           output.lines[k].rawText = output.candidateLines[k].line

C2_PlaceholderReturned ==
  /\ Extracted
  /\ Len(output.candidateLines) > 0
  /\ \E k \in 1..Len(output.lines) :
       /\ IsPlaceholder(output.lines[k])
       /\ output.lines[k].reference = None
       /\ output.lines[k].designation = None
       /\ output.lines[k].rawText = output.candidateLines[k].line

\* The result of the last call when served by a process that served no call before.
FreshResult ==
  CASE op = "detectZones" ->
         Let([z \in {detectZones(input, 0)} |->
           [headerEnd |-> z.headerEnd, tableStart |-> z.tableStart,
            tableEnd |-> z.tableEnd, footerStart |-> z.footerStart]])
    [] op = "scoreAllLines" -> scoreAllLines(input, DEFAULT_NOISE_KEYWORDS, 0).v
    [] op = "isFragment" -> isFragment(input, 0).v
    [] op = "extractLinesWithStats" ->
         Let([r \in {extractLinesWithStats(input, defaultVatRate, 0)} |->
           [lines |-> r.lines, stats |-> r.stats, candidateLines |-> r.candidateLines]])
    [] OTHER -> output

\* C3 as stated: the pipeline keeps no cross-call state; the result of a call is the
\* same whatever calls were served before, and no call leaves the shared patterns in
\* a state (the match position of the currency-amount pattern) that a later call sees.
C3_NoCrossCallState == output = FreshResult

IsScenarioResult(lines) ==
  /\ Len(lines) = 3
  /\ lines[2].isCorrupted
  /\ lines[2].needsReview
  /\ lines[2].corruptionReason # None
  /\ OrEmpty(lines[2].corruptionReason) # ""
  /\ includes(lines[2].rawText, "pe = ce")
  /\ ~lines[1].isCorrupted
  /\ ~lines[3].isCorrupted

\* C4 as stated: for the document of a barcode line, the line 'pe = ce ...' and a
\* second barcode line, bare or between a header row and a total line,
\* extractLinesWithStats returns 3 lines, the second corrupted and to be reviewed
\* with a reason and rawText containing 'pe = ce', the two others not corrupted.
C4_CorruptedLineScenario ==
  Extracted /\ input \in {BareScenario, WrappedScenario} => IsScenarioResult(output.lines)

\* C5 as stated: suspicion detection is applied to the line of every strategy, the
\* loose fallback included: a returned line that is not the placeholder and is
\* suspicious has needsReview, isCorrupted and a reason code.
C5_SuspicionOnEveryStrategy ==
  Extracted =>
    \A k \in 1..Len(output.lines) :
      (/\ ~IsPlaceholder(output.lines[k])
       /\ detectSuspiciousExtraction(output.lines[k]).isSuspicious)
        => /\ output.lines[k].needsReview
           /\ output.lines[k].isCorrupted
           /\ output.lines[k].corruptionReason # None

\* C6: in every returned line isCorrupted implies needsReview and a non-empty
\* corruption reason, and only a corrupted line has a corruption reason.
C6_CorruptedImpliesReview ==
  Extracted =>
    \A k \in 1..Len(output.lines) :
      /\ output.lines[k].isCorrupted =>
           /\ output.lines[k].needsReview
           /\ output.lines[k].corruptionReason # None
           /\ Val(output.lines[k].corruptionReason) # ""
      /\ output.lines[k].corruptionReason # None => output.lines[k].isCorrupted

C6_CorruptedLineReturned ==
  /\ Extracted
  /\ \E k \in 1..Len(output.lines) :
       /\ output.lines[k].isCorrupted
       /\ ~IsPlaceholder(output.lines[k])
       /\ output.lines[k].needsReview
       /\ output.lines[k].corruptionReason = Some("suspicious_reference")
  /\ \E k \in 1..Len(output.lines) :
       ~output.lines[k].isCorrupted /\ output.lines[k].corruptionReason = None

\* The rest of a line after its leading code, as tryCodeWithAmounts reads it.
CodeRest(line) ==
  substring(line, Len(Matched(line,
    Exec(Regex(<<Bol, Grp(1, <<Cls(AlNum, 1, 1), Cls(AlNum \cup {"-", ".", "/"}, 2, 20)>>), Sp>>,
               TRUE), line, 1))))

LastOf(q) == IF q = <<>> THEN Zero ELSE q[Len(q)]

\* The total the strategy that made line l parsed from its text; 0 when the strategy
\* parses no total.
ParsedTotal(l) ==
  CASE l.extractionMethod = "barcode" ->
         parseNumber(cleanNumeric(Cap(l.rawText, Exec(LINE_BARCODE, l.rawText, 1), 6)))
    [] l.extractionMethod = "extended" ->
         parseNumber(cleanNumeric(Cap(l.rawText, Exec(LINE_EXTENDED, l.rawText, 1), 6)))
    [] l.extractionMethod = "with_discount" ->
         parseNumber(Cap(l.rawText, Exec(LINE_WITH_DISCOUNT, l.rawText, 1), 6))
    [] l.extractionMethod = "full" ->
         parseNumber(Cap(l.rawText, Exec(LINE_FULL, l.rawText, 1), 5))
    [] l.extractionMethod = "loose_extended_ocr" ->
         parseNumber(cleanNumeric(Cap(l.rawText, Exec(LOOSE_EXTENDED, l.rawText, 1), 6)))
    [] l.extractionMethod = "loose_code_amounts" -> LastOf(extractNumbers(CodeRest(l.rawText)))
    [] l.extractionMethod = "loose_multi_numbers" ->
         LastOf(SelectSeq(extractNumbers(l.rawText), Meaningful))
    [] OTHER -> Zero

\* quantity x unitPriceHT x (1 - discountRate) from the returned fields of line l
ProductOf(l) ==
  IF l.quantity = None \/ l.unitPriceHT = None THEN None ELSE Some(LineProduct(l))

\* C7: a returned line whose totalHT is present and positive has the total parsed
\* from the line when that is positive, and otherwise quantity x unitPriceHT x
\* (1 - discountRate) of its own returned fields, a null discount counting as 0.
C7_TotalParsedOrProduct ==
  Extracted =>
    \A k \in 1..Len(output.lines) :
      HasTotal(output.lines[k]) =>
        output.lines[k].totalHT =
          (IF RPos(ParsedTotal(output.lines[k])) THEN Some(ParsedTotal(output.lines[k]))
           ELSE ProductOf(output.lines[k]))

C7_BothTotalsReturned ==
  /\ Extracted
  /\ \E k \in 1..Len(output.lines) :
       /\ HasTotal(output.lines[k])
       /\ ~RPos(ParsedTotal(output.lines[k]))
       /\ output.lines[k].discountRate # None
  /\ \E k \in 1..Len(output.lines) :
       HasTotal(output.lines[k]) /\ RPos(ParsedTotal(output.lines[k]))

NullOrPositive(o) == o = None \/ RPos(Val(o))

\* C8 as stated: in every returned line each of quantity, unitPriceHT, totalHT and
\* discountRate is null or strictly positive, never 0.
C8_NullOrPositive ==
  Extracted =>
    \A k \in 1..Len(output.lines) :
      /\ NullOrPositive(output.lines[k].quantity)
      /\ NullOrPositive(output.lines[k].unitPriceHT)
      /\ NullOrPositive(output.lines[k].totalHT)
      /\ NullOrPositive(output.lines[k].discountRate)

Zoned == op = "detectZones"

\* C11: for a document of n >= 1 lines detectZones returns 0 <= tableStart <=
\* tableEnd <= n - 1 and tableEnd < footerStart <= n, so the table slice and the
\* footer slice share no line.
C11_TableBeforeFooter ==
  Zoned =>
    /\ 0 <= output.tableStart
    /\ output.tableStart <= output.tableEnd
    /\ output.tableEnd <= Len(input) - 1
    /\ output.tableEnd < output.footerStart
    /\ output.footerStart <= Len(input)

\* The footer keyword was found on the first line of the table zone, so the table
\* end found by the scan lies before the table start and is moved up to it.
C11_FooterAtTableStart ==
  /\ Zoned
  /\ Len(input) >= 2
  /\ output.tableStart = output.tableEnd
  /\ Test(FOOTER_START, trim(input[output.tableStart + 1]))
  /\ output.footerStart = output.tableEnd + 1

\* A line that is a table-start cue: column-header keywords, a leading barcode of
\* 8 to 14 digits, or a dashed reference together with an amount.
IsCue(line) ==
  /\ trim(line) # ""
  /\ \/ Test(TABLE_HEADER, trim(line))
     \/ Test(EAN_FULL, trim(line))
     \/ Test(REF_DASH, trim(line)) /\ TestG(AMOUNT_PATTERN, trim(line), 0).ok

\* The 0-based indices of the cue lines of a document.
Cues(lines) == {i \in 0..(Len(lines) - 1) : IsCue(lines[i + 1])}

FirstCue(lines) == CHOOSE i \in Cues(lines) : \A j \in Cues(lines) : i <= j

\* C12 as stated: when some line matches a table-start cue, the table zone begins
\* at the first such line, index 0 included, and the header zone is the lines
\* strictly before it (headerEnd is the index of the last of them, 0 when there is
\* none); the 15 % header fallback is used only when no line matches a cue.
C12_TableStartsAtFirstCue ==
  Zoned /\ Cues(input) # {} =>
    /\ output.tableStart = FirstCue(input)
    /\ output.headerEnd = Max(0, FirstCue(input) - 1)

(***************************************************************************)
(* TotalsValidator as a state machine: a validator is constructed with a  *)
(* configuration and validate is applied to a list of lines and the       *)
(* totals of the invoice; `input` holds the three.                         *)
(***************************************************************************)
MaxValidatedLines == 3

\* An invoice line by the fields validate reads.
PricedLine(quantity, unitPriceHT, discountRate, totalHT) ==
  [quantity |-> quantity, unitPriceHT |-> unitPriceHT, discountRate |-> discountRate,
   totalHT |-> totalHT]

PricedLines ==
  {PricedLine(Some(One), Some(Whole(1010)), Some(Pct(15)), Some(Norm(1717, 2))),
   PricedLine(Some(Whole(2)), Some(Whole(250)), None, None),
   PricedLine(None, None, None, Some(Hundred)),
   PricedLine(None, None, None, None)}

LineLists == UNION {[1..n -> PricedLines] : n \in 0..MaxValidatedLines}

ReportedTotals ==
  {Zero, Whole(500), Whole(1000), Norm(5151, 2), Whole(2600), Whole(3000)}

\* new TotalsValidator() and new TotalsValidator({tolerancePercent: 2, absoluteTolerance: 30})
ValidatorConfigs ==
  {TOTALS_DEFAULT_CONFIG,
   [TOTALS_DEFAULT_CONFIG EXCEPT !.tolerancePercent = Whole(2),
                                 !.absoluteTolerance = Whole(30)]}

InitTotals ==
  /\ text = <<>>
  /\ lastIndex = 0
  /\ op = "none"
  /\ input \in {[lines |-> l, totals |-> [totalHT |-> t], config |-> c] :
                  l \in LineLists, t \in ReportedTotals, c \in ValidatorConfigs}
  /\ output = <<>>

\* TotalsValidator.validate(lines, totals)
Validate ==
  /\ op' = "validate"
  /\ output' = validate(input.lines, input.totals, input.config)
  /\ UNCHANGED <<text, lastIndex, input>>

NextTotals == Validate

SpecTotals == InitTotals /\ [][NextTotals]_vars

(***************************************************************************)
(* Properties of TotalsValidator, checked under SpecTotals.                *)
(***************************************************************************)
Validated == op = "validate"

\* The total of the lines as validate adds it up, before rounding.
LinesTotal == SumLines(input.lines, 0, [calculatedTotalHT |-> Zero, validLines |-> 0,
                                        missingTotals |-> 0, calculatedTotals |-> 0,
                                        warnings |-> <<>>, suggestions |-> <<>>]).calculatedTotalHT

SuggestsMissingLine ==
  \E k \in 1..Len(output.suggestions) : output.suggestions[k].type = "missing_line"

\* validate with the default configuration was applied to lines whose totals sum
\* to 2575.50 and a reported totalHT of 2600.00.
C9_Lines2575Reported2600 ==
  /\ Validated
  /\ input.config = TOTALS_DEFAULT_CONFIG
  /\ Len(input.lines) > 0
  /\ \A k \in 1..Len(input.lines) : HasTotal(input.lines[k])
  /\ LinesTotal = Norm(5151, 2)
  /\ input.totals.totalHT = Whole(2600)

\* C9 as stated: with the default configuration, lines summing to 2575.50 and a
\* reported total of 2600.00, validate returns isValid = false and a suggestion of
\* type missing_line.
C9_ShortfallInvalid ==
  C9_Lines2575Reported2600 => ~output.isValid /\ SuggestsMissingLine

\* C9, amended: with the default configuration, lines summing to 2575.50 and a
\* reported total of 2600.00, validate returns isValid = true, the difference of
\* 24.50 being 0.94 % of the reported total and so within the 1 % tolerance, and
\* no suggestion of type missing_line.
C9_ShortfallWithinTolerance ==
  C9_Lines2575Reported2600 =>
    /\ output.isValid
    /\ ~SuggestsMissingLine
    /\ output.difference = Norm(49, 2)
    /\ RLt(output.percentageDiff, One)

\* C10 as stated: for every list of lines and every reported total, zero included,
\* validate returns isValid = true exactly when |calculated total - reported total|
\* <= max(tolerancePercent % of the reported total, absoluteTolerance).
C10_ValidWithinMaxTolerance ==
  Validated =>
    (output.isValid <=>
       RLe(RAbs(RSub(LinesTotal, input.totals.totalHT)),
           RMax(RDiv(RMul(input.config.tolerancePercent, input.totals.totalHT), Hundred),
                input.config.absoluteTolerance)))

(***************************************************************************)
(* ContactExtractor as a state machine: the address of the supplier is     *)
(* extracted from the text of a document, and the collected address lines  *)
(* are dispatched into street and streetLine2.                             *)
(***************************************************************************)
MaxAddressLines == 3

\* Lines as the address strategies collect them: trimmed and not empty.
AddressLines ==
  {"123 Boulevard Mohammed V", "45, Rue Ibn Tofail", "GALERIE MARCHANDE MARJANE",
   "Zone Industrielle Ain Sebaa", "Niveau 2, Local 205", "Lot 45"}

CollectedLines ==
  UNION {{q \in [1..n -> AddressLines] : \A i, j \in 1..n : i # j => q[i] # q[j]} : n \in 1..MaxAddressLines}

\* Document headers: the supplier name, its address in the usual layouts, identifiers.
HeaderTexts ==
  {<<"OPTICA VISION SARL", "FACTURE N° : 20250388", "ICE: 001234567000089", "Date: 15/01/2025">>,
   <<"OPTICA VISION SARL", "FACTURE N° : 20250388 GALERIE MARCHANDE MARJANE", "CASABLANCA - MAROC",
     "ICE: 001234567000089">>,
   <<"OPTICA VISION SARL", "FACTURE N° : 20250388 GALERIE MARCHANDE MARJANE, CASABLANCA - MAROC",
     "ICE: 001234567000089", "Date: 15/01/2025">>,
   <<"OPTICA VISION SARL", "GALERIE MARCHANDE MARJANE", "123 Boulevard Mohammed V",
     "CASABLANCA - MAROC", "ICE: 001234567000089">>,
   <<"LENS DISTRIBUTION", "Adresse: 45 Rue Ibn Tofail, Rabat", "ICE: 003456789000023",
     "Tél: 05 37 65 43 21">>,
   <<"OPTIQUE FRANCE SAS", "15 Avenue des Champs", "75008 Paris - France", "SIRET: 123 456 789 00012">>,
   <<"ESSILOR DISTRIBUTION", "Centre Commercial Anfaplace", "Niveau 2, Local 205",
     "15 Boulevard de la Corniche", "Quartier Racine", "Casablanca 20000 - Maroc",
     "ICE: 005678901000045">>,
   <<"VISION PLUS", "Lot 45 Hay Hassani", "ICE: 002345678000012",
     "12345678 SAFILO GREY 1 100.00 15% 85.00", "AB-1234 MONTURE 2 50.00 100.00">>,
   <<"AB-12 OPTIC 1 100.00", "Rabat", "AB-12 OPTIC 1 100.00">>}

AddressTexts == HeaderTexts \cup CollectedLines

InitAddress ==
  /\ text \in AddressTexts
  /\ lastIndex = 0
  /\ op = "none"
  /\ input = <<>>
  /\ output = <<>>

\* The lines of the text, collected as they are.
DispatchAddressLines ==
  /\ op' = "dispatchAddressLines"
  /\ input' = text
  /\ output' = dispatchAddressLines(text)
  /\ UNCHANGED <<text, lastIndex>>

\* The supplier name, when one was extracted, is the first line of the text.
ExtractAddress ==
  \E supplierName \in {None, Some(trim(text[1]))} :
    \E r \in {extractAddress(text, supplierName, lastIndex)} :
      /\ op' = "extractAddress"
      /\ input' = [text |-> text, supplierName |-> supplierName, lastIndex |-> lastIndex]
      /\ output' = r.result
      /\ lastIndex' = r.li
      /\ UNCHANGED text

NextAddress == DispatchAddressLines \/ ExtractAddress

SpecAddress == InitAddress /\ [][NextAddress]_vars

Dispatched == op = "dispatchAddressLines"

NumberedStreets(lines) == SelectSeq(lines, isNumberedStreet)

Locations(lines) == SelectSeq(lines, LAMBDA l : isLocation(l) /\ ~isNumberedStreet(l))

Others(lines) == SelectSeq(lines, LAMBDA l : ~isLocation(l) /\ ~isNumberedStreet(l))

AddressExtracted == op = "extractAddress"

\* The five strategies on the header of the extracted text, in their order, each
\* with its floor; the positional strategy runs only with a supplier name.
StrategyResults ==
  LET header == extractHeaderZone(input.text, input.lastIndex).lines
  IN << [result |-> extractLabeledAddress(header), floor |-> Tenth(7)],
        [result |-> IF input.supplierName # None
                    THEN extractPositionalAddress(header, Val(input.supplierName))
                    ELSE emptyAddressResult, floor |-> Tenth(5)],
        [result |-> extractAddressByCity(header), floor |-> Tenth(5)],
        [result |-> extractAddressFromDocumentLines(header), floor |-> Tenth(5)],
        [result |-> extractAddressByKeywords(header), floor |-> Tenth(4)] >>

Reaching(results) == {i \in 1..Len(results) : RLe(results[i].floor, results[i].result.confidence)}

\* C14: extractAddress returns the result of the first strategy, in the order
\* labeled, positional, city-anchored, document-line, street-keyword, whose
\* confidence reaches its floor (0.7, 0.5, 0.5, 0.5, 0.4); when none does, the
\* result has value null, confidence 0 and every component null.
C14_FirstStrategyReachingFloor ==
  AddressExtracted =>
    LET results == StrategyResults
        reaching == Reaching(results)
    IN IF reaching = {}
       THEN /\ output.value = None /\ output.confidence = Zero
            /\ output.street = None /\ output.streetLine2 = None /\ output.city = None
            /\ output.country = None /\ output.postalCode = None
       ELSE output = results[CHOOSE i \in reaching : \A j \in reaching : i <= j].result

\* With a supplier name given, neither the labeled nor the positional strategy
\* reaches its floor and the city-anchored one is returned, although the
\* street-keyword strategy reaches its floor too.
C14_CityAnchoredReturned ==
  /\ AddressExtracted
  /\ input.supplierName # None
  /\ Reaching(StrategyResults) \cap {1, 2} = {}
  /\ 5 \in Reaching(StrategyResults)
  /\ output.matchedPattern = Some("city-detection")

\* C17 as stated, for the address result: the confidence of the result of
\* extractAddress lies between 0 and 1 inclusive, whichever strategy produced it
\* and however many lines the positional strategy collected.
C17_ConfidenceInUnitInterval ==
  AddressExtracted => RLe(Zero, output.confidence) /\ RLe(output.confidence, One)

\* The lines of the loose fallback extractor among the returned lines
LooseLines ==
  {k \in 1..Len(output.lines) : startsWith(output.lines[k].extractionMethod, "loose_")}

C16_CleanIdempotent ==
  op = "cleanOcrText" => cleanOcrText(output) = output

LinesScored == op = "scoreAllLines"

\* C18 as stated: the array returned by scoreAllLines is sorted by score in
\* descending order.
C18_SortedByScoreDescending ==
  LinesScored =>
    \A i, j \in 1..Len(output) : i < j => output[i].score >= output[j].score

\* The points of a criterion of scoreLine
Points(criterion) ==
  CASE criterion \in {"EAN_FULL", "REF_DASH", "REF_NUMERIC"} -> 3
    [] criterion \in {"EAN_TRUNCATED", "HAS_MULTIPLE_AMOUNTS", "MULTI_COLUMN_4+"} -> 2
    [] OTHER -> 1

RECURSIVE RunningScore(_, _)
RunningScore(criteria, n) == IF n = 0 THEN 0 ELSE RunningScore(criteria, n - 1) + Points(criteria[n])

\* C20 as stated: for a line that is not fast-rejected, no criterion is added to
\* the criteria list after the one that first brought the running score to the
\* threshold, whichever criterion that is.
C20_StopsAtThreshold ==
  LinesScored =>
    \A k \in 1..Len(output) :
      output[k].score # -10 =>
        \A n \in 1..(Len(output[k].criteria) - 1) :
          RunningScore(output[k].criteria, n) < threshold

\* What each of the seven strategies yields for a candidate line, in the order
\* barcode, extended, with-discount, full, simple, fallback, loose fallback.
Yields(c) ==
  <<tryBarcodeFormat(c.line, c.lineIndex, defaultVatRate),
    tryExtendedFormat(c.line, c.lineIndex, defaultVatRate),
    tryWithDiscountFormat(c.line, c.lineIndex, defaultVatRate),
    tryFullFormat(c.line, c.lineIndex, defaultVatRate),
    trySimpleFormat(c.line, c.lineIndex, defaultVatRate),
    tryFallbackFormat(c.line, c.lineIndex, defaultVatRate),
    extract(c.line, c.lineIndex, defaultVatRate).line>>

\* A record that passes the validity check: designation or reference present,
\* and at least one of quantity, unit price, total present.
PassesValidity(r) ==
  /\ r # None
  /\ Truthy(Val(r).designation) \/ Truthy(Val(r).reference)
  /\ Val(r).quantity # None \/ Val(r).unitPriceHT # None \/ Val(r).totalHT # None

Passing(yields) == {i \in 1..Len(yields) : PassesValidity(yields[i])}

FirstPassing(yields) == CHOOSE i \in Passing(yields) : \A j \in Passing(yields) : i <= j

MethodOf(i) == <<"barcode", "extended", "with_discount", "full", "simple", "fallback", "loose_">>[i]

\* The fields a strategy extracts, the corruption flags apart
SameRecord(l, r) ==
  /\ l.reference = r.reference /\ l.designation = r.designation /\ l.quantity = r.quantity
  /\ l.unit = r.unit /\ l.unitPriceHT = r.unitPriceHT /\ l.discountRate = r.discountRate
  /\ l.totalHT = r.totalHT /\ l.vatRate = r.vatRate /\ l.rawText = r.rawText
  /\ l.confidence = r.confidence /\ l.lineIndex = r.lineIndex
  /\ l.extractionMethod = r.extractionMethod

\* C19: for each candidate line the returned line is the record of the first
\* strategy, in the order barcode, extended, with-discount, full, simple,
\* fallback, loose fallback, whose record passes the validity check, tagged with
\* that strategy's method; the placeholder (method detected_only, quantity, unit
\* price and total null, needsReview, the five confidences 0) is returned exactly
\* when none of the seven yields a valid record.
C19_FirstValidStrategy ==
  Extracted /\ Len(output.candidateLines) > 0 =>
    \A k \in 1..Len(output.candidateLines) :
      LET yields == Yields(output.candidateLines[k])
          l == output.lines[k]
      IN IF Passing(yields) = {}
         THEN /\ l.extractionMethod = "detected_only"
              /\ l.quantity = None /\ l.unitPriceHT = None /\ l.totalHT = None
              /\ l.needsReview
              /\ \A f \in DOMAIN l.confidence : l.confidence[f] = Zero
         ELSE /\ SameRecord(l, Val(yields[FirstPassing(yields)]))
              /\ startsWith(l.extractionMethod, MethodOf(FirstPassing(yields)))

\* A candidate line that the barcode, extended, with-discount and full strategies
\* do not parse and a later strategy does.
C19_LaterStrategyReturned ==
  /\ Extracted
  /\ \E k \in 1..Len(output.candidateLines) :
       /\ Passing(Yields(output.candidateLines[k])) # {}
       /\ FirstPassing(Yields(output.candidateLines[k])) >= 5
       /\ output.lines[k].extractionMethod # "detected_only"

(***************************************************************************)
(* FragmentMerger.merge and MultiLineDetector.process, applied to the      *)
(* lines of a table in which product records are spread over several       *)
(* physical lines.  Both read the shared PatternCache.                     *)
(***************************************************************************)
MaxTableLines == 5

\* Table lines the tables are cut from.
SplitRecordLines ==
  <<"12345678 SAFILO",
    "modele GREY 54",
    "BLACK",
    "100.00 85.00",
    "87654321 CARRERA",
    "AB-123 CHLOE",
    "50.00 100.00",
    "REF001 MONTURE",
    "noire mate",
    "grise",
    "verte",
    "45.00 90.00",
    "12345678 Se pe",
    "-SOD.54 1 100.00 15%",
    "- verre 12.50 25.00 fin",
    "CD-45 POLICE  ",
    "",
    "77.00 154.00",
    "AB-123 CARRERA 2 50.00 100.00",
    "Total HT: 170.00">>

Tables ==
  UNION {{SubSeq(SplitRecordLines, i, i + n - 1) : i \in 1..(Len(SplitRecordLines) - n + 1)} :
         n \in 1..MaxTableLines}

InitDetection ==
  /\ text \in Tables
  /\ lastIndex = 0
  /\ op = "none"
  /\ input = <<>>
  /\ output = <<>>

\* FragmentMerger.merge(lines)
Merge ==
  \E r \in {merge(text, lastIndex)} :
    /\ lastIndex' = r.li
    /\ op' = "merge"
    /\ input' = [lines |-> text, lastIndex |-> lastIndex]
    /\ output' = [lines |-> r.lines, mergeCount |-> r.mergeCount, mergedIndices |-> r.mergedIndices]
    /\ UNCHANGED text

\* MultiLineDetector.process(lines)
Process ==
  \E r \in {process(text, lastIndex)} :
    /\ lastIndex' = r.li
    /\ op' = "process"
    /\ input' = text
    /\ output' = [lines |-> r.lines, mergedGroups |-> r.mergedGroups,
                  originalCount |-> r.originalCount, finalCount |-> r.finalCount]
    /\ UNCHANGED text

NextDetection ==
  \/ Merge
  \/ Process
  \/ \E i \in 1..Len(text) : IsFragment(text[i])

SpecDetection == InitDetection /\ [][NextDetection]_vars

Merged == op = "merge"

\* The two tests of the pass, on a merger that has tested nothing before
Truncated(line) == isTruncatedLine(trim(line), 0).v
Fragment(line) == isFragment(trim(line), 0).v

\* The pairs <<i, i + 1>> of mergedIndices, and the number of them below index i
Pairs(indices) == {k \in 1..Len(indices) : k % 2 = 1}
PairsBelow(indices, i) == Cardinality({k \in Pairs(indices) : indices[k] < i})
InPair(indices, i) == \E k \in 1..Len(indices) : indices[k] = i

\* C21: merge makes one left-to-right pass: a truncated line followed by a
\* fragment is emitted as trim(line) + " " + trim(next line) and both are passed,
\* any other line is emitted unchanged; the output has length(lines) - mergeCount
\* entries, mergedIndices holds 2 x mergeCount strictly increasing indices, every
\* input line is in exactly one output entry and no merged line is merged again.
C21_OnePassMerge ==
  Merged =>
    LET idx == output.mergedIndices
        n == Len(input.lines)
    IN /\ Len(output.lines) = n - output.mergeCount
       /\ Len(idx) = 2 * output.mergeCount
       /\ \A k \in 1..(Len(idx) - 1) : idx[k] < idx[k + 1]
       /\ \A k \in Pairs(idx) :
            /\ idx[k + 1] = idx[k] + 1
            /\ idx[k + 1] < n
            /\ Truncated(input.lines[idx[k] + 1]) /\ Fragment(input.lines[idx[k] + 2])
            /\ output.lines[idx[k] + 1 - PairsBelow(idx, idx[k])] =
                 trim(input.lines[idx[k] + 1]) \o " " \o trim(input.lines[idx[k] + 2])
       /\ \A i \in 0..(n - 1) :
            ~InPair(idx, i) =>
              /\ output.lines[i + 1 - PairsBelow(idx, i)] = input.lines[i + 1]
              /\ ~(Truncated(input.lines[i + 1]) /\ i + 1 < n /\ Fragment(input.lines[i + 2]))

\* A merge of two lines that is followed by another fragment, made by a merger
\* whose pattern cache was left mid-line by an earlier test.
C21_MergedThenFragment ==
  /\ Merged
  /\ output.mergeCount = 1
  /\ Len(input.lines) > output.mergedIndices[2] + 1
  /\ Fragment(input.lines[output.mergedIndices[2] + 2])
  /\ input.lastIndex # 0

Processed == op = "process"

\* The indices of a group, as a set
IndexSet(group) == {group.indices[k] : k \in 1..Len(group.indices)}

\* The start lines process examines in its pass over `lines`: it moves past a
\* group to the line after the group's last index, and by one line otherwise.
RECURSIVE StartLines(_, _, _)
StartLines(lines, groups, i) ==
  IF i >= Len(lines) THEN {}
  ELSE IF \E g \in 1..Len(groups) : groups[g].indices[1] = i
       THEN LET group == CHOOSE group \in {groups[g] : g \in 1..Len(groups)} : group.indices[1] = i
            IN {i} \cup StartLines(lines, groups, group.indices[Len(group.indices)] + 1)
       ELSE {i} \cup StartLines(lines, groups, i + 1)

\* An amounts line is reached within the lookahead of start line i
AmountsWithin(lines, i) ==
  \E j \in 1..maxLookAhead : i + j < Len(lines) /\ hasAmounts(trim(lines[i + j + 1]))

\* C22: every merged group has 2 to 4 strictly increasing line indices within
\* start..start+3 and its last line has amounts; groups are pairwise disjoint and
\* a line consumed by a group is not examined again as a start line; with no
\* amounts line within the 3 lookahead lines no group starts at a line, and the
\* line is passed through unchanged.
C22_GroupsBounded ==
  Processed =>
    LET groups == output.mergedGroups
        starts == StartLines(input, groups, 0)
    IN /\ \A g \in 1..Len(groups) :
            LET idx == groups[g].indices
            IN /\ Len(idx) \in 2..4
               /\ Len(groups[g].lines) = Len(idx)
               /\ \A k \in 1..(Len(idx) - 1) : idx[k] < idx[k + 1]
               /\ idx[Len(idx)] <= idx[1] + 3
               /\ idx[Len(idx)] < Len(input)
               /\ hasAmounts(trim(input[idx[Len(idx)] + 1]))
               /\ \A k \in 1..Len(idx) : groups[g].lines[k] = trim(input[idx[k] + 1])
               /\ idx[1] \in starts
               /\ \A k \in 2..Len(idx) : idx[k] \notin starts
               /\ \A h \in 1..Len(groups) : h # g => IndexSet(groups[h]) \cap IndexSet(groups[g]) = {}
       /\ \A i \in starts :
            ~AmountsWithin(input, i) =>
              /\ \A g \in 1..Len(groups) : groups[g].indices[1] # i
              /\ \E k \in 1..Len(output.lines) : output.lines[k] = input[i + 1]

\* A group of four lines, and in the same table a start line with no amounts line
\* within its lookahead
C22_FourLineGroupAndNone ==
  /\ Processed
  /\ \E g \in 1..Len(output.mergedGroups) : Len(output.mergedGroups[g].indices) = 4
  /\ \E i \in StartLines(input, output.mergedGroups, 0) :
       trim(input[i + 1]) # "" /\ ~AmountsWithin(input, i)

\* C23: no merged group contains, after its first line, a line that starts with
\* a product identifier (barcode, dashed reference or numeric reference), with or
\* without amounts.
C23_NoProductStartAbsorbed ==
  Processed =>
    \A g \in 1..Len(output.mergedGroups) :
      \A k \in 2..Len(output.mergedGroups[g].lines) :
        ~startsWithIdentifier(output.mergedGroups[g].lines[k])

(***************************************************************************)
(* TotalsValidator.validate and quickValidate on lines whose recorded      *)
(* total disagrees with quantity x price, is zero, is negative or is       *)
(* absent.                                                                 *)
(***************************************************************************)
MaxCheckedLines == 2

CheckedLines ==
  {PricedLine(Some(Whole(2)), Some(Whole(250)), None, Some(Hundred)),
   PricedLine(Some(One), Some(Whole(1010)), Some(Pct(15)), Some(Norm(1717, 2))),
   PricedLine(Some(Whole(2)), Some(Whole(250)), None, Some(Zero)),
   PricedLine(None, None, None, Some(Whole(-50))),
   PricedLine(None, None, None, Some(Hundred)),
   PricedLine(Some(Whole(2)), Some(Whole(50)), None, None)}

CheckedLineLists == UNION {[1..n -> CheckedLines] : n \in 0..MaxCheckedLines}

CheckedTotals == {Zero, Hundred, Whole(500), Norm(1717, 2)}

InitLineTotals ==
  /\ text = <<>>
  /\ lastIndex = 0
  /\ op = "none"
  /\ input \in {[lines |-> l, totals |-> [totalHT |-> t], config |-> c] :
                  l \in CheckedLineLists, t \in CheckedTotals, c \in ValidatorConfigs}
  /\ output = <<>>

\* TotalsValidator.quickValidate(lines, expectedTotalHT)
QuickValidate ==
  /\ op' = "quickValidate"
  /\ output' = quickValidate(input.lines, input.totals.totalHT, input.config)
  /\ UNCHANGED <<text, lastIndex, input>>

NextLineTotals == Validate \/ QuickValidate

SpecLineTotals == InitLineTotals /\ [][NextLineTotals]_vars

\* |quantity x price x (1 - discount) - total| exceeds both 1 unit and 5% of the total
Disagrees(line) ==
  /\ HasProduct(line)
  /\ line.totalHT # None
  /\ LET lineDiff == RAbs(RSub(LineProduct(line), Val(line.totalHT)))
     IN RLt(One, lineDiff) /\ RLt(RMul(Pct(5), Val(line.totalHT)), lineDiff)

\* C24: validate emits a total_mismatch suggestion for every line that has
\* quantity, unit price and total and whose total disagrees with quantity x price
\* x (1 - discount) by more than 1 unit and more than 5% of the total, whatever
\* the number of lines of the invoice.
C24_MismatchOnEveryLine ==
  op = "validate" =>
    \A i \in 1..Len(input.lines) :
      Disagrees(input.lines[i]) =>
        \E s \in 1..Len(output.suggestions) :
          /\ output.suggestions[s].type = "total_mismatch"
          /\ output.suggestions[s].lineIndex = Some(i - 1)

\* C25: quickValidate(lines, t) returns what validate(lines, {totalHT: t}).isValid
\* is under the same configuration.
C25_QuickAgreesWithValidate ==
  op = "quickValidate" =>
    output = validate(input.lines, input.totals, input.config).isValid

\* The returned lines that satisfy a condition, by position
Bucket(lines, Cond(_)) == {k \in 1..Len(lines) : Cond(lines[k])}

\* C26: in every result of extractLinesWithStats stats.detected is lines.length
\* and extracted + partial + failed is detected: a line with needsReview false is
\* counted as extracted, a needs-review line with a designation or a reference as
\* partial, a needs-review line with neither as failed.
C26_StatsPartitionLines ==
  Extracted =>
    /\ output.stats.detected = Len(output.lines)
    /\ output.stats.extracted + output.stats.partial + output.stats.failed = output.stats.detected
    /\ output.stats.extracted = Cardinality(Bucket(output.lines, LAMBDA l : ~l.needsReview))
    /\ output.stats.partial =
         Cardinality(Bucket(output.lines,
                            LAMBDA l : l.needsReview /\ (Truthy(l.designation) \/ Truthy(l.reference))))
    /\ output.stats.failed =
         Cardinality(Bucket(output.lines,
                            LAMBDA l : l.needsReview /\ ~Truthy(l.designation) /\ ~Truthy(l.reference)))

(***************************************************************************)
(* EntityZoneDetector applied to invoices made of a header, a table and a *)
(* footer.                                                                 *)
(***************************************************************************)
EntityHeaders ==
  {<<"OPTICA SARL", "12 Rue Atlas", "Client: Jean Dupont", "45 Avenue Hassan II">>,
   <<"Fournisseur: OPTICA SARL", "12 Rue Atlas", "Client: Jean Dupont", "45 Avenue Hassan II">>,
   <<"OPTICA DISTRIBUTION          Jean Dupont Optique",
     "12 Rue Atlas Casablanca          45 Avenue Hassan II Rabat">>,
   <<"OPTICA">>,
   <<"OPTICA SARL au capital de 10000 DH">>,
   <<"Fournisseur: OPTICA SARL", "Jean Dupont Optique          45 Avenue Hassan II Rabat">>,
   <<"Client: Jean Dupont", "45 Avenue Hassan II", "ICE: 001234567000089">>,
   <<"Vendor: LENS CO", "Bill to: ACME", "", "Client:", "Jean Dupont">>}

EntityTables ==
  {<<>>, <<"Désignation Qté P.U. Total", "12345678 SAFILO GREY 1 100.00 15% 85.00">>}

EntityFooters ==
  {<<>>,
   <<"Total HT: 85.00">>,
   <<"Total HT: 85.00", "ICE: 001234567000089 - RC: 12345">>,
   <<"Total HT: 85.00", "SARL au capital de 100 000 DH",
     "Banque: Attijariwafa - RIB: 0011 2233 4455 6677 8899 0011">>}

Invoices == {h \o t \o f : h \in EntityHeaders, t \in EntityTables, f \in EntityFooters}

InitEntity ==
  /\ text \in Invoices
  /\ lastIndex = 0
  /\ op = "none"
  /\ input = <<>>
  /\ output = <<>>

\* EntityZoneDetector.detectEntityBlocks(text)
DetectEntityBlocks ==
  \E r \in {detectEntityBlocks(text, lastIndex)} :
    /\ lastIndex' = r.li
    /\ op' = "detectEntityBlocks"
    /\ input' = [lines |-> text, lastIndex |-> lastIndex]
    /\ output' = [vendor |-> r.vendor, customer |-> r.customer, vendorFooter |-> r.vendorFooter]
    /\ UNCHANGED text

\* ZoneDetector.extractFooterZone(text), then EntityZoneDetector.extractVendorFromFooter
ExtractVendorFromFooter ==
  \E footer \in {extractFooterZone(text, lastIndex)} :
    /\ lastIndex' = footer.li
    /\ op' = "extractVendorFromFooter"
    /\ input' = footer.text
    /\ output' = extractVendorFromFooter(footer.text)
    /\ UNCHANGED text

NextEntity == DetectEntityBlocks \/ ExtractVendorFromFooter

SpecEntity == InitEntity /\ [][NextEntity]_vars

EntitiesDetected == op = "detectEntityBlocks"

\* The labeled blocks of the header of the invoice given to detectEntityBlocks
LabeledOfInput ==
  findLabeledBlocks(join(extractHeaderZone(input.lines, input.lastIndex).lines, "\n"))

\* C27: a vendor or customer block found through a label is returned with source
\* labeled and is not replaced by a positional block; a positional block
\* (header_left for the vendor, header_right for the customer) is returned for a
\* role only when the role has no labeled block, the vendor one only if the left
\* text has tax-identifier or legal-form markers or at least 2 lines.
C27_LabeledBeforePositional ==
  EntitiesDetected =>
    /\ LabeledOfInput.vendor # None =>
         output.vendor = LabeledOfInput.vendor /\ Val(output.vendor).source = "labeled"
    /\ LabeledOfInput.customer # None =>
         output.customer = LabeledOfInput.customer /\ Val(output.customer).source = "labeled"
    /\ LabeledOfInput.vendor = None /\ output.vendor # None =>
         /\ Val(output.vendor).source = "header_left"
         /\ \/ hasVendorIndicators(Val(output.vendor).text)
            \/ Len(Val(output.vendor).lines) >= 2
    /\ LabeledOfInput.customer = None /\ output.customer # None =>
         Val(output.customer).source = "header_right"

\* A labeled vendor block returned with a customer block taken from the right column
C27_LabeledVendorPositionalCustomer ==
  /\ EntitiesDetected
  /\ output.vendor # None /\ Val(output.vendor).source = "labeled"
  /\ output.customer # None /\ Val(output.customer).source = "header_right"

\* The lines of a block, as a set
BlockLines(block) == {Val(block).lines[k] : k \in 1..Len(Val(block).lines)}

\* C28: the vendor block and the customer block returned by detectEntityBlocks do
\* not contain the same header line.
C28_BlocksDisjoint ==
  EntitiesDetected /\ output.vendor # None /\ output.customer # None =>
    BlockLines(output.vendor) \cap BlockLines(output.customer) = {}

\* C29: a vendorFooter block is returned only when at least one of ICE, IF, RC,
\* CNSS, patente, bank, RIB, capital or legal form was found in the footer zone.
C29_FooterBlockOnlyWithInfo ==
  EntitiesDetected /\ output.vendorFooter # None =>
    \E f \in DOMAIN extractVendorFromFooter(Val(output.vendorFooter).text).fields :
      Truthy(extractVendorFromFooter(Val(output.vendorFooter).text).fields[f])

\* The orders in which the lines can be taken, each line once
Orderings(lines) ==
  {[k \in 1..Len(lines) |-> lines[p[k]]] :
     p \in {q \in [1..Len(lines) -> 1..Len(lines)] : \A i, j \in 1..Len(lines) : i # j => q[i] # q[j]}}

\* C30: the dispatch loses no collected line: each line is in exactly one of
\* street and streetLine2, that is, street is one of the lines and streetLine2 is
\* the others joined by ', ', also when several lines are numbered streets.
C30_NoLineLost ==
  Dispatched /\ input # <<>> =>
    \E q \in Orderings(input) :
      /\ output.street = Some(Head(q))
      /\ output.streetLine2 = JoinedOrNull(Tail(q))

====
